---- MODULE Spec2Model ----
(***************************************************************************)
(* The streaming zlib/DEFLATE decompressor of src/src/decompress.rs        *)
(* (struct Decompressor, its read call and decompress_to_vec), as a state  *)
(* machine whose steps are the calls a caller makes.                       *)
(*                                                                         *)
(* Representation.  The 64-bit bit buffer is a sequence of 64 bits, bit k  *)
(* of the u64 at index k+1, so that no 64-bit integer is ever formed.      *)
(* The Adler-32 state is the pair (a, b) of its two 16-bit sums.  The      *)
(* 4096-entry advance_table and data_table are kept as the list of the     *)
(* code-length vectors build_tables was run on; an entry is computed on    *)
(* demand as the last write build_tables makes to it (an entry no build    *)
(* wrote keeps its initial value).  Debug assertions are compiled out      *)
(* (release build); an index out of range or a failed assert! is the       *)
(* result "Panic".                                                         *)
(***************************************************************************)
EXTENDS Integers, Sequences, FiniteSets, TLC

VARIABLES
    decoder,        \* the Decompressor (all its fields)
    input,          \* every byte the caller will ever have for this stream
    avail,          \* how many of them have arrived so far
    input_index,    \* bytes reported consumed so far
    output,         \* the caller's output buffer as the last call left it
    output_index,   \* bytes reported produced so far
    result,         \* the last call: its arguments and what it returned
    expected,       \* the plaintext the stream was encoded from
    valid,          \* whether input is a complete valid zlib stream
    pc              \* position of the caller ("" while streaming)

vars == <<decoder, input, avail, input_index, output, output_index, result,
          expected, valid, pc>>

-----------------------------------------------------------------------------
(* Integers as bit strings *)

Max(S) == CHOOSE x \in S : \A y \in S : y <= x
Min(S) == CHOOSE x \in S : \A y \in S : x <= y
MinOf(a, b) == IF a <= b THEN a ELSE b

\* bit k of v
BitAt(v, k) == (v \div (2 ^ k)) % 2

\* the n low bits of v, least significant first
BitsOf(v, n) == [k \in 1..n |-> BitAt(v, k - 1)]

RECURSIVE ToNat(_)
\* the number a sequence of bits (least significant first) stands for
ToNat(bits) ==
    IF bits = <<>> THEN 0 ELSE bits[1] + 2 * ToNat(Tail(bits))

\* v.reverse_bits() >> (16 - n): the n low bits of v in reverse order
ReverseBits(v, n) == ToNat([k \in 1..n |-> BitAt(v, n - k)])

RECURSIVE BitOr(_, _)
BitOr(a, b) ==
    IF a = 0 THEN b
    ELSE IF b = 0 THEN a
    ELSE (IF a % 2 = 1 \/ b % 2 = 1 THEN 1 ELSE 0) + 2 * BitOr(a \div 2, b \div 2)

RECURSIVE BitAnd(_, _)
BitAnd(a, b) ==
    IF a = 0 \/ b = 0 THEN 0
    ELSE (IF a % 2 = 1 /\ b % 2 = 1 THEN 1 ELSE 0) + 2 * BitAnd(a \div 2, b \div 2)

RECURSIVE TrailingZeros(_)
\* u16::trailing_zeros of a non-zero value
TrailingZeros(v) == IF v % 2 = 1 THEN 0 ELSE 1 + TrailingZeros(v \div 2)

Zeros(n) == [k \in 1..n |-> 0]

\* Vec::resize(n, 0)
Resize(v, n) == IF n <= Len(v) THEN SubSeq(v, 1, n) ELSE v \o Zeros(n - Len(v))

-----------------------------------------------------------------------------
(* crate::tables and crate::compute_codes (RFC 1951 constants, spec 4.5) *)

CLCL_ORDER == <<16, 17, 18, 0, 8, 7, 9, 6, 10, 5, 11, 4, 12, 3, 13, 2, 14, 1, 15>>

FIXED_CODE_LENGTHS ==
    [i \in 0..319 |->
        IF i < 144 THEN 8 ELSE IF i < 256 THEN 9 ELSE IF i < 280 THEN 7
        ELSE IF i < 288 THEN 8 ELSE 5]

LEN_SYM_TO_LEN_BASE ==
    <<3, 4, 5, 6, 7, 8, 9, 10, 11, 13, 15, 17, 19, 23, 27, 31, 35, 43, 51, 59,
      67, 83, 99, 115, 131, 163, 195, 227, 258>>

LEN_SYM_TO_LEN_EXTRA ==
    <<0, 0, 0, 0, 0, 0, 0, 0, 1, 1, 1, 1, 2, 2, 2, 2, 3, 3, 3, 3,
      4, 4, 4, 4, 5, 5, 5, 5, 0>>

DIST_SYM_TO_DIST_BASE ==
    <<1, 2, 3, 4, 5, 7, 9, 13, 17, 25, 33, 49, 65, 97, 129, 193, 257, 385, 513,
      769, 1025, 1537, 2049, 3073, 4097, 6145, 8193, 12289, 16385, 24577>>

DIST_SYM_TO_DIST_EXTRA ==
    <<0, 0, 0, 0, 1, 1, 2, 2, 3, 3, 4, 4, 5, 5, 6, 6, 7, 7, 8, 8,
      9, 9, 10, 10, 11, 11, 12, 12, 13, 13>>

\* the symbols of each code length 1..16
ByLength(lengths) ==
    LET used == {i \in DOMAIN lengths : lengths[i] # 0}
    IN  [len \in 1..16 |-> {i \in used : lengths[i] = len}]

RECURSIVE NextCode(_, _)
\* the running `code` of compute_codes when its pass for length len starts
NextCode(bylen, len) ==
    IF len = 1 THEN 0
    ELSE 2 * (NextCode(bylen, len - 1) + Cardinality(bylen[len - 1]))

\* the canonical Huffman code of each symbol, bits reversed (the decoder
\* matches codes against the low bits of its buffer); None (some = FALSE)
\* unless the lengths are exactly complete.
canonical_codes(lengths) ==
    LET bylen == ByLength(lengths)
        next == [len \in 1..16 |-> NextCode(bylen, len)]
    IN  IF NextCode(bylen, 17) # 2 ^ 17
        THEN [some |-> FALSE, codes |-> [i \in DOMAIN lengths |-> 0]]
        ELSE [some |-> TRUE,
              codes |->
                [i \in DOMAIN lengths |->
                    IF lengths[i] = 0 THEN 0
                    ELSE ReverseBits(
                            next[lengths[i]]
                              + Cardinality({j \in bylen[lengths[i]] : j < i}),
                            lengths[i])]]

\* the symbol of each <<length, code>>
code_index(lengths, codes) ==
    LET bylen == ByLength(lengths)
    IN  [k \in UNION {{<<len, codes[i]>> : i \in bylen[len]} : len \in 1..16} |->
            CHOOSE i \in bylen[k[1]] : codes[i] = k[2]]

\* the fixed literal/length code, worked out once
FIXED_LITLEN == [i \in 0..287 |-> FIXED_CODE_LENGTHS[i]]
FIXED_LITLEN_CODES == canonical_codes(FIXED_LITLEN)
FIXED_LITLEN_INDEX == code_index(FIXED_LITLEN, FIXED_LITLEN_CODES.codes)

\* compute_codes
compute_codes(lengths) ==
    IF lengths = FIXED_LITLEN THEN FIXED_LITLEN_CODES ELSE canonical_codes(lengths)

-----------------------------------------------------------------------------
(* simd_adler32::Adler32 *)

Adler32_new == [a |-> 1, b |-> 0]

RECURSIVE Adler32_write(_, _)
\* write(bytes): a += byte, b += a for each byte, both modulo 65521 (the
\* bytes are taken half by half to keep the evaluation shallow)
Adler32_write(ck, bytes) ==
    IF bytes = <<>> THEN ck
    ELSE IF Len(bytes) = 1
    THEN LET a == (ck.a + bytes[1]) % 65521
         IN  [a |-> a, b |-> (ck.b + a) % 65521]
    ELSE LET h == Len(bytes) \div 2
             first == Adler32_write(ck, SubSeq(bytes, 1, h))
         IN  IF first.a >= 0
             THEN Adler32_write(first, SubSeq(bytes, h + 1, Len(bytes)))
             ELSE first

\* finish(), as its four bytes from the most significant: (b << 16) | a
Adler32_finish(ck) == <<ck.b \div 256, ck.b % 256, ck.a \div 256, ck.a % 256>>

-----------------------------------------------------------------------------
(* Decompressor: the bit reader *)

None == <<>>

States ==
    {"ZlibHeader", "BlockHeader", "CodeLengths", "CompressedData",
     "UncompressedData", "Checksum", "Done"}

\* Decompressor::new
Decompressor_new ==
    [ compression |->
        [ litlen |-> <<>>,      \* advance_table, data_table, secondary_table
          dist_symbol_lengths |-> [i \in 0..29 |-> 0],
          dist_symbol_masks |-> [i \in 0..29 |-> 0],
          dist_symbol_codes |-> [i \in 0..29 |-> 65535] ],
      header |->
        [ hlit |-> 0, hdist |-> 0,
          table |-> [i \in 0..127 |-> 0],
          num_lengths_read |-> 0,
          code_lengths |-> [i \in 0..319 |-> 0] ],
      uncompressed_bytes_left |-> 0,
      buffer |-> Zeros(64),
      nbits |-> 0,
      bits_read |-> 0,
      queued_rle |-> None,
      queued_backref |-> None,
      checksum |-> Adler32_new,
      state |-> "ZlibHeader",
      last_block |-> FALSE ]

(* Inside a call the decoder travels in a record m:                        *)
(*   self             the Decompressor                                     *)
(*   remaining_input  the input not yet moved to the bit buffer            *)
(*   output           the caller's buffer, output[i+1] the byte at index i *)
(*   output_index     the write position                                   *)
(*   err              "" or the DecompressionError raised ("Panic" for a   *)
(*                    panic); once set, the call does nothing more         *)
(*   stop             why the last step of the call stopped: "input" (it   *)
(*                    lacks input bits or bytes), "output" (the output     *)
(*                    buffer ran out), "queue" (the early return of a      *)
(*                    queued run or back-reference), "block" (a block      *)
(*                    ended), "done"                                       *)
(*   seen             what the trailer comparison read, None if not made   *)

\* u64::from_le_bytes of 8 bytes, as 64 bits
from_le_bytes(bytes) ==
    [k \in 1..64 |-> BitAt(bytes[((k - 1) \div 8) + 1], (k - 1) % 8)]

\* buffer | (word << n), in 64 bits
OrShl(buffer, word, n) ==
    [k \in 1..64 |-> IF k > n /\ word[k - n] = 1 THEN 1 ELSE buffer[k]]

\* buffer >> n
Shr(buffer, n) == [k \in 1..64 |-> IF k + n <= 64 THEN buffer[k + n] ELSE 0]

\* fill_buffer leaving in the input the last byte it loaded from a short
\* input
fill_buffer_keep_last(m) ==
    LET nbits == m.self.nbits
        inp == m.remaining_input
    IN  IF nbits = 64 THEN m
        ELSE IF Len(inp) >= 8 THEN
            [m EXCEPT
                !.self.buffer = OrShl(@, from_le_bytes(SubSeq(inp, 1, 8)), nbits),
                !.remaining_input = SubSeq(inp, ((63 - nbits) \div 8) + 1, Len(inp)),
                !.self.nbits = BitOr(nbits, 56)]
        ELSE
            LET nbytes == MinOf(Len(inp), (64 - nbits) \div 8)
            IN  [m EXCEPT
                    !.self.buffer =
                        OrShl(@, from_le_bytes(SubSeq(inp, 1, nbytes) \o Zeros(8 - nbytes)),
                              nbits),
                    !.self.nbits = nbits + nbytes * 8,
                    !.remaining_input =
                        SubSeq(inp, (IF nbytes > 0 THEN nbytes ELSE 1), Len(inp))]

\* fill_buffer removing from the input all 8 bytes of the word it loaded
fill_buffer_all_eight(m) ==
    LET nbits == m.self.nbits
        inp == m.remaining_input
    IN  IF nbits = 64 THEN m
        ELSE IF Len(inp) >= 8 THEN
            [m EXCEPT
                !.self.buffer = OrShl(@, from_le_bytes(SubSeq(inp, 1, 8)), nbits),
                !.remaining_input = SubSeq(inp, 9, Len(inp)),
                !.self.nbits = BitOr(nbits, 56)]
        ELSE
            LET nbytes == MinOf(Len(inp), (64 - nbits) \div 8)
            IN  [m EXCEPT
                    !.self.buffer =
                        OrShl(@, from_le_bytes(SubSeq(inp, 1, nbytes) \o Zeros(8 - nbytes)),
                              nbits),
                    !.self.nbits = nbits + nbytes * 8,
                    !.remaining_input = SubSeq(inp, nbytes + 1, Len(inp))]

fill_buffer(m) ==
    LET nbits == m.self.nbits
        inp == m.remaining_input
    IN  IF nbits = 64 THEN m
        ELSE IF Len(inp) >= 8 THEN
            [m EXCEPT
                !.self.buffer = OrShl(@, from_le_bytes(SubSeq(inp, 1, 8)), nbits),
                !.remaining_input = SubSeq(inp, ((63 - nbits) \div 8) + 1, Len(inp)),
                !.self.nbits = BitOr(nbits, 56)]
        ELSE
            LET nbytes == MinOf(Len(inp), (64 - nbits) \div 8)
            IN  [m EXCEPT
                    !.self.buffer =
                        OrShl(@, from_le_bytes(SubSeq(inp, 1, nbytes) \o Zeros(8 - nbytes)),
                              nbits),
                    !.self.nbits = nbits + nbytes * 8,
                    !.remaining_input = SubSeq(inp, nbytes + 1, Len(inp))]

\* peak_bits(nbits), as its bits; peak_bits(hi) >> lo is PeakRange(self, lo, hi)
peak_bits(self, nbits) == SubSeq(self.buffer, 1, nbits)

PeakRange(self, lo, hi) == ToNat(SubSeq(self.buffer, lo + 1, hi))

\* the bits counted as consumed and left in the buffer, above the rest
consume_bits_rotated(m, nbits) ==
    IF m.self.nbits < nbits THEN [m EXCEPT !.err = "Panic"]
    ELSE [m EXCEPT
            !.self.buffer = [k \in 1..64 |-> @[((k + nbits - 1) % 64) + 1]],
            !.self.nbits = @ - nbits,
            !.self.bits_read = @ + nbits]

\* consuming more bits than are buffered underflows nbits: "Panic"
consume_bits(m, nbits) ==
    IF m.self.nbits < nbits THEN [m EXCEPT !.err = "Panic"]
    ELSE [m EXCEPT
            !.self.buffer = Shr(@, nbits),
            !.self.nbits = @ - nbits,
            !.self.bits_read = @ + nbits]

\* read_bits: the machine after it and the value read (some = FALSE: None)
read_bits(m, nbits) ==
    LET f == IF m.self.nbits < nbits THEN fill_buffer(m) ELSE m
    IN  IF f.self.nbits < nbits THEN [m |-> f, some |-> FALSE, value |-> 0]
        ELSE [m |-> consume_bits(f, nbits), some |-> TRUE,
              value |-> ToNat(peak_bits(f.self, nbits))]

-----------------------------------------------------------------------------
(* build_tables.  One element t of compression.litlen is one run of the    *)
(* literal/length part of build_tables: the lengths and codes it ran on,   *)
(* its hlit, and two indexes kept for speed: key, the symbol of each       *)
(* <<length, code>>, and long, the symbols of more than 12 bits.  A table  *)
(* entry j is found through the symbols whose code is the low bits of j;   *)
(* the code being prefix-free there is at most one per loop.               *)

\* the symbols whose code, of at most `most` bits, is the low bits of j
Matching(t, j, most) ==
    {t.key[<<len, j % (2 ^ len)>>] :
        len \in {l \in 1..most : <<l, j % (2 ^ l)>> \in DOMAIN t.key}}

\* let use_extra_length = lengths[0] > 0 && codes[0] == 0
use_extra_length(t) == t.lengths[0] > 0 /\ t.codes[0] = 0

\* the zeros counted whatever the code of literal 0 is
extra_length_always(t, j, bits) ==
    IF t.lengths[0] > 0
    THEN TrailingZeros(BitOr(j, 61440) \div (2 ^ bits)) \div t.lengths[0]
    ELSE 0

\* ((j | 0xf000) >> bits).trailing_zeros() as u8 / lengths[0], or 0
extra_length(t, j, bits) ==
    IF use_extra_length(t)
    THEN TrailingZeros(BitOr(j, 61440) \div (2 ^ bits)) \div t.lengths[0]
    ELSE 0

\* the literals i whose loop `while j < 4096 && length != 0 && length <= 12`
\* writes entry j
SingleAt(t, j) == {i \in Matching(t, j, 12) : i < 256}

\* the second literals ii with which the pair loop of literal i writes entry j
PairAt(t, i, j) ==
    IF t.lengths[i] > 9 THEN {}
    ELSE {ii \in Matching(t, j \div (2 ^ t.lengths[i]), 12 - t.lengths[i]) :
            ii < 256}

\* the (i, ii) of the last pair write to entry j, None if there is none
LastPair(t, j) ==
    LET S == {i \in SingleAt(t, j) : PairAt(t, i, j) # {}}
    IN  IF S = {} THEN None ELSE <<Max(S), Max(PairAt(t, Max(S), j))>>

\* advance_table[j] as the loop over the literals 0..256 leaves it (-1: not written)
LiteralEntry(t, j) ==
    LET S == SingleAt(t, j)
    IN  IF S = {} THEN -1
        ELSE LET i == Max(S)
                 P == PairAt(t, i, j)
                 length == t.lengths[i]
             IN  IF P = {}
                 THEN LET el == extra_length(t, j, length)
                      IN  BitOr((el + 1) * 16, length + el * t.lengths[0])
                 ELSE LET length2 == t.lengths[Max(P)]
                          el == extra_length(t, j, length + length2)
                      IN  BitOr((el + 2) * 16, length + length2 + el * t.lengths[0])

\* advance_table[j] as the loop over 256..hlit leaves it (-1: not written)
LengthEntry(t, j) ==
    LET S == {i \in Matching(t, j, 12) : i >= 256 /\ i < t.hlit}
    IN  IF S = {} THEN -1
        ELSE BitOr((Max(S) - 256) * 256, t.lengths[Max(S)] * 16)

\* the symbols with codes longer than 12 bits, and their 12-bit prefixes
LongSyms(t) == t.long
LongPrefix(t, i) == t.codes[i] % 4096
\* the first symbol with prefix p: the one that allocates p's 8 secondary slots
FirstLong(t, p) == Min({i \in LongSyms(t) : LongPrefix(t, i) = p})
\* secondary_table_len when prefix p gets its slots
SecondaryBase(t, p) ==
    8 * Cardinality({FirstLong(t, LongPrefix(t, i)) : i \in
                        {k \in LongSyms(t) :
                            FirstLong(t, LongPrefix(t, k)) < FirstLong(t, p)}})
\* secondary_table.len()
secondary_table_len(t) ==
    8 * Cardinality({LongPrefix(t, i) : i \in LongSyms(t)})

\* the loops over the codes of more than 12 bits left out
no_long_entry(t, j) == -1

\* advance_table[j] as the long-code loops leave it (-1: not written)
LongEntry(t, j) ==
    IF \E i \in LongSyms(t) : LongPrefix(t, i) = j
    THEN BitOr(SecondaryBase(t, j) * 16, 32768)
    ELSE -1

\* advance_table[j] after one build (-1: that build did not write it)
AdvanceWrite(t, j) ==
    LET long == LongEntry(t, j)
        length == LengthEntry(t, j)
    IN  IF long # -1 THEN long
        ELSE IF length # -1 THEN length
        ELSE LiteralEntry(t, j)

RECURSIVE advance_table(_, _)
\* compression.advance_table[j]; [u16::MAX; 4096] before any build
advance_table(litlen, j) ==
    IF litlen = <<>> THEN 65535
    ELSE LET w == AdvanceWrite(litlen[Len(litlen)], j)
         IN  IF w # -1 THEN w
             ELSE advance_table(SubSeq(litlen, 1, Len(litlen) - 1), j)

RECURSIVE data_table0(_, _)
\* compression.data_table[j][0]
data_table0(litlen, j) ==
    IF litlen = <<>> THEN 0
    ELSE LET S == SingleAt(litlen[Len(litlen)], j)
         IN  IF S # {} THEN Max(S)
             ELSE data_table0(SubSeq(litlen, 1, Len(litlen) - 1), j)

RECURSIVE data_table1(_, _)
\* compression.data_table[j][1]: only the pair loop writes it
data_table1(litlen, j) ==
    IF litlen = <<>> THEN 0
    ELSE LET p == LastPair(litlen[Len(litlen)], j)
         IN  IF p # None THEN p[2]
             ELSE data_table1(SubSeq(litlen, 1, Len(litlen) - 1), j)

\* compression.secondary_table[k] of the last build (-1: k is out of range)
secondary_table(litlen, k) ==
    IF litlen = <<>> THEN -1
    ELSE LET t == litlen[Len(litlen)]
             S == {i \in LongSyms(t) :
                     /\ SecondaryBase(t, LongPrefix(t, i)) = k - (k % 8)
                     /\ (k % 8) % (2 ^ (t.lengths[i] - 12)) = t.codes[i] \div 4096}
         IN  IF k >= secondary_table_len(t) THEN -1
             ELSE IF S = {} THEN 0
             ELSE BitOr(Max(S) * 16, t.lengths[Max(S)])

\* the distance part of build_tables
build_dist_tables(m) ==
    LET lengths == [i \in 0..31 |-> m.self.header.code_lengths[288 + i]]
        c == compute_codes(lengths)
        codes == IF c.some THEN c.codes ELSE [i \in 0..31 |-> 0]
    IN  IF \A i \in 0..31 : lengths[i] = 0
        THEN [m EXCEPT
                !.self.compression.dist_symbol_masks = [i \in 0..29 |-> 0],
                !.self.compression.dist_symbol_codes = [i \in 0..29 |-> 65535]]
        ELSE IF ~c.some /\ Cardinality({i \in 0..31 : lengths[i] # 0}) # 1
        THEN [m EXCEPT !.err = "BadDistanceHuffmanTree"]
        ELSE [m EXCEPT
                !.self.compression.dist_symbol_codes =
                    [i \in 0..29 |-> IF lengths[i] = 0 THEN 65535 ELSE codes[i]],
                !.self.compression.dist_symbol_lengths =
                    [i \in 0..29 |-> lengths[i]],
                !.self.compression.dist_symbol_masks =
                    [i \in 0..29 |->
                        IF lengths[i] = 0 THEN 0 ELSE (2 ^ lengths[i]) - 1]]

build_tables(m) ==
    LET lengths == [i \in 0..287 |-> m.self.header.code_lengths[i]]
        c == compute_codes(lengths)
        t == [lengths |-> lengths, codes |-> c.codes, hlit |-> m.self.header.hlit,
              key |-> IF lengths = FIXED_LITLEN THEN FIXED_LITLEN_INDEX
                      ELSE code_index(lengths, c.codes),
              long |-> {i \in 0..287 :
                          i < m.self.header.hlit /\ lengths[i] > 12}]
    IN  IF ~c.some THEN [m EXCEPT !.err = "BadLiteralLengthHuffmanTree"]
        ELSE IF secondary_table_len(t) > 2047
        THEN [m EXCEPT !.self.compression.litlen = Append(@, t), !.err = "Panic"]
        ELSE build_dist_tables([m EXCEPT !.self.compression.litlen = Append(@, t)])

\* the scan compares the whole candidate with the code
dist_symbol_of_unmasked(c, dist_code) ==
    LET S == {j \in 0..29 : dist_code = c.dist_symbol_codes[j]}
    IN  IF S = {} THEN 999 ELSE Min(S)

\* the linear scan for the distance symbol: `for j in dist_table[..]..30`,
\* dist_table being filled with 0 by every build; 999 if none matches
dist_symbol_of(c, dist_code) ==
    LET S == {j \in 0..29 :
                BitAnd(dist_code, c.dist_symbol_masks[j]) = c.dist_symbol_codes[j]}
    IN  IF S = {} THEN 999 ELSE Min(S)

-----------------------------------------------------------------------------
(* read_block_header and read_code_lengths *)

Fail(m, e) == [m EXCEPT !.err = e]

\* the stored header taken whatever NLEN is
stored_header_any_nlen(m) ==
    LET align_bits == (8 - ((m.self.bits_read + 3) % 8)) % 8
        header_bits == 3 + 32 + align_bits
        len == PeakRange(m.self, align_bits + 3, align_bits + 19)
    IN  IF m.self.nbits < header_bits THEN m
        ELSE consume_bits(
                [m EXCEPT !.self.state = "UncompressedData",
                          !.self.uncompressed_bytes_left = len],
                header_bits)

\* the stored header taken without consuming the padding before LEN
stored_header_keeps_padding(m) ==
    LET align_bits == (8 - ((m.self.bits_read + 3) % 8)) % 8
        header_bits == 3 + 32 + align_bits
        len == PeakRange(m.self, align_bits + 3, align_bits + 19)
        nlen == PeakRange(m.self, align_bits + 19, header_bits)
    IN  IF m.self.nbits < header_bits THEN m
        ELSE IF nlen # 65535 - len
        THEN Fail(m, "InvalidUncompressedBlockLength")
        ELSE consume_bits(
                [m EXCEPT !.self.state = "UncompressedData",
                          !.self.uncompressed_bytes_left = len],
                3 + 32)

\* BTYPE = 00
stored_header(m) ==
    LET align_bits == (8 - ((m.self.bits_read + 3) % 8)) % 8
        header_bits == 3 + 32 + align_bits
        len == PeakRange(m.self, align_bits + 3, align_bits + 19)
        nlen == PeakRange(m.self, align_bits + 19, header_bits)
    IN  IF m.self.nbits < header_bits THEN m
        ELSE IF nlen # 65535 - len
        THEN Fail(m, "InvalidUncompressedBlockLength")
        ELSE consume_bits(
                [m EXCEPT !.self.state = "UncompressedData",
                          !.self.uncompressed_bytes_left = len],
                header_bits)

\* `Self::build_tables(...)?; self.state = State::CompressedData;`
compressed_data(b) ==
    IF b.err # "" THEN b ELSE [b EXCEPT !.self.state = "CompressedData"]

\* a symbol is decoded with whatever is buffered
never_lacks_bits(self, n) == FALSE

\* `if self.nbits < ... { return / break }`: the symbol and its extra bits
\* are not all buffered
lacks_bits(self, n) == self.nbits < n

\* BTYPE = 01
fixed_header(m) ==
    compressed_data(
        build_tables(
            [consume_bits(m, 3) EXCEPT
                !.self.header.hlit = 288,
                !.self.header.hdist = 32,
                !.self.header.code_lengths = FIXED_CODE_LENGTHS]))

RECURSIVE read_code_length_lengths(_, _, _, _)
\* for i in 0..hclen { code_length_lengths[CLCL_ORDER[i]] = read_bits(3).unwrap() }
read_code_length_lengths(m, i, hclen, cll) ==
    IF i = hclen \/ m.err # "" THEN [m |-> m, cll |-> cll]
    ELSE LET r == read_bits(m, 3)
         IN  IF ~r.some
             THEN [m |-> Fail(r.m, "Panic"), cll |-> cll]
             ELSE read_code_length_lengths(
                     r.m, i + 1, hclen, [cll EXCEPT ![CLCL_ORDER[i + 1]] = r.value])

\* the end of the dynamic header: the codes c of the code-length code
\* lengths cll, and self.header.table filled from them
code_length_table(m, cll, c) ==
    IF m.err # "" THEN m
    ELSE IF ~c.some THEN Fail(m, "BadCodeLengthHuffmanTree")
    ELSE [m EXCEPT
            !.self.header.table =
                [j \in 0..127 |->
                    LET S == {i \in 0..18 :
                                cll[i] > 0 /\ j % (2 ^ cll[i]) = c.codes[i]}
                    IN  IF S = {} THEN 255
                        ELSE BitOr(Max(S) * 8, cll[Max(S)])],
            !.self.state = "CodeLengths"]

\* `let Some(codes) = compute_codes(&code_length_lengths) else { ... }`
code_length_codes(r) == code_length_table(r.m, r.cll, compute_codes(r.cll))

\* the dynamic header testing HDIST before HLIT
dynamic_header_hdist_first(m) ==
    LET hclen == PeakRange(m.self, 13, 17) + 4
        h == [m EXCEPT !.self.header.hlit = PeakRange(m.self, 3, 8) + 257,
                       !.self.header.hdist = PeakRange(m.self, 8, 13) + 1]
    IN  IF m.self.nbits < 17 THEN m
        ELSE IF m.self.nbits + Len(m.remaining_input) * 8 < 17 + 3 * hclen THEN m
        ELSE IF h.self.header.hdist > 30 THEN Fail(h, "InvalidHdist")
        ELSE IF h.self.header.hlit > 286 THEN Fail(h, "InvalidHlit")
        ELSE code_length_codes(
                read_code_length_lengths(consume_bits(h, 17), 0, hclen,
                                         [i \in 0..18 |-> 0]))

\* BTYPE = 10
dynamic_header(m) ==
    LET hclen == PeakRange(m.self, 13, 17) + 4
        h == [m EXCEPT !.self.header.hlit = PeakRange(m.self, 3, 8) + 257,
                       !.self.header.hdist = PeakRange(m.self, 8, 13) + 1]
    IN  IF m.self.nbits < 17 THEN m
        ELSE IF m.self.nbits + Len(m.remaining_input) * 8 < 17 + 3 * hclen THEN m
        ELSE IF h.self.header.hlit > 286 THEN Fail(h, "InvalidHlit")
        ELSE IF h.self.header.hdist > 30 THEN Fail(h, "InvalidHdist")
        ELSE code_length_codes(
                read_code_length_lengths(consume_bits(h, 17), 0, hclen,
                                         [i \in 0..18 |-> 0]))

read_block_header(m0) ==
    LET m == fill_buffer(m0)
        start == ToNat(peak_bits(m.self, 3))
        l == [m EXCEPT !.self.last_block = (start % 2 # 0)]
    IN  IF m.self.nbits < 3 THEN m
        ELSE CASE start \div 2 = 0 -> stored_header(l)
               [] start \div 2 = 1 -> fixed_header(l)
               [] start \div 2 = 2 -> dynamic_header(l)
               [] OTHER -> Fail(l, "InvalidBlockType")

\* after the loop of read_code_lengths: lay the lengths out and build
finish_code_lengths(m) ==
    LET hlit == m.self.header.hlit
        hdist == m.self.header.hdist
        old == m.self.header.code_lengths
    IN  compressed_data(
            build_tables(
                [m EXCEPT !.self.header.code_lengths =
                    [i \in 0..319 |->
                        IF i >= hlit /\ i < 288 THEN 0
                        ELSE IF i >= 288 /\ i < 288 + hdist THEN old[hlit + (i - 288)]
                        ELSE IF i >= 288 + hdist THEN 0
                        ELSE old[i]]]))

\* one repeat symbol (16, 17 or 18) of read_code_lengths; go = FALSE: return
code_length_repeat(m, symbol, length) ==
    LET n == m.self.header.num_lengths_read
        total == m.self.header.hlit + m.self.header.hdist
        base_repeat == IF symbol = 18 THEN 11 ELSE 3
        extra_bits == IF symbol = 16 THEN 2 ELSE IF symbol = 17 THEN 3 ELSE 7
        value == IF symbol = 16 THEN m.self.header.code_lengths[n - 1] ELSE 0
        repeat == PeakRange(m.self, length, length + extra_bits) + base_repeat
    IN  IF lacks_bits(m.self, length + extra_bits) THEN [m |-> m, go |-> FALSE]
        ELSE IF symbol = 16 /\ n = 0
        THEN [m |-> Fail(m, "InvalidCodeLengthRepeat"), go |-> FALSE]
        ELSE IF n + repeat > total
        THEN [m |-> Fail(m, "InvalidCodeLengthRepeat"), go |-> FALSE]
        ELSE [m |-> consume_bits(
                      [m EXCEPT
                        !.self.header.code_lengths =
                            [i \in 0..319 |->
                                IF i >= n /\ i < n + repeat THEN value ELSE @[i]],
                        !.self.header.num_lengths_read = n + repeat],
                      length + extra_bits),
              go |-> TRUE]

RECURSIVE read_code_lengths(_)
read_code_lengths(m0) ==
    IF m0.self.header.num_lengths_read
         >= m0.self.header.hlit + m0.self.header.hdist
    THEN finish_code_lengths(m0)
    ELSE LET m == fill_buffer(m0)
             entry == m.self.header.table[ToNat(peak_bits(m.self, 7))]
             length == entry % 8
             symbol == entry \div 8
             n == m.self.header.num_lengths_read
             r == code_length_repeat(m, symbol, length)
         IN  IF m.self.nbits < 7 THEN m
             ELSE IF symbol <= 15
             THEN read_code_lengths(
                     consume_bits(
                        [m EXCEPT !.self.header.code_lengths[n] = symbol,
                                  !.self.header.num_lengths_read = n + 1],
                        length))
             ELSE IF symbol > 18 THEN Fail(m, "Panic")
             ELSE IF r.go THEN read_code_lengths(r.m) ELSE r.m

-----------------------------------------------------------------------------
(* read_compressed *)

\* output[i] = b; an index out of range panics
WriteOut(m, i, b) ==
    IF m.err # "" THEN m
    ELSE IF i < 0 \/ i >= Len(m.output) THEN Fail(m, "Panic")
    ELSE [m EXCEPT !.output[i + 1] = b]

Stop(m, why) == [m EXCEPT !.stop = why]

\* a copy of the n bytes as they were before the copy began
copy_back_within(m, at, dist, n) ==
    IF n = 0 \/ dist = 0 \/ m.err # "" THEN m
    ELSE IF at - dist < 0 \/ at + n > Len(m.output) THEN Fail(m, "Panic")
    ELSE [m EXCEPT !.output =
            [k \in 1..Len(@) |->
                IF k > at /\ k <= at + n THEN @[k - dist] ELSE @[k]]]

\* for i in 0..n { output[at + i] = output[at + i - dist] }: byte i is the
\* byte the loop found at at + i - dist, which for i >= dist it wrote itself
copy_back(m, at, dist, n) ==
    IF n = 0 \/ dist = 0 \/ m.err # "" THEN m
    ELSE IF at - dist < 0 \/ at + n > Len(m.output) THEN Fail(m, "Panic")
    ELSE [m EXCEPT !.output =
            [k \in 1..Len(@) |->
                IF k > at /\ k <= at + n
                THEN @[at - dist + ((k - at - 1) % dist) + 1]
                ELSE @[k]]]

\* room for one byte only
fits_one(m) == m.output_index < Len(m.output)

\* `if output_index + 1 < output.len()`: room for the two bytes of an entry
fits_pair(m) == m.output_index + 1 < Len(m.output)

\* the fast path: the table entry is a literal, a pair, or a literal and
\* a run of zeros.  go = TRUE: continue the decoding loop
fast_path(m, advance, data0, data1) ==
    LET advance_input_bits == advance % 16
        advance_output_bytes == advance \div 16
        oi == m.output_index
        len == Len(m.output)
        w == consume_bits(
                [WriteOut(WriteOut(m, oi, data0), oi + 1, data1)
                    EXCEPT !.output_index = oi + advance_output_bytes],
                advance_input_bits)
    IN  IF fits_pair(m)
        THEN IF w.output_index > len
             THEN [m |-> Stop([w EXCEPT
                                !.self.queued_rle = <<0, w.output_index - len>>,
                                !.output_index = len], "output"),
                   go |-> FALSE]
             ELSE [m |-> w, go |-> TRUE]
        ELSE IF oi + advance_output_bytes = len
        THEN [m |-> Stop(consume_bits(
                            [WriteOut(m, oi, data0) EXCEPT !.output_index = oi + 1],
                            advance_input_bits), "output"),
              go |-> FALSE]
        ELSE [m |-> Stop(m, "output"), go |-> FALSE]

\* every block is taken for the last
after_block_checksum(self) == "Checksum"

\* `if self.last_block { State::Checksum } else { State::BlockHeader }`
after_block(self) == IF self.last_block THEN "Checksum" ELSE "BlockHeader"

\* no distance is refused
never_too_far(m, dist) == FALSE

\* `if dist > output_index`
too_far_back(m, dist) == dist > m.output_index

\* a length symbol: its extra bits, the distance code and the copy (the
\* run branch of the source is guarded by `&& false` and never taken)
back_reference(m, litlen_code_bits, litlen_symbol) ==
    LET length_extra_bits == LEN_SYM_TO_LEN_EXTRA[litlen_symbol - 257 + 1]
        lo == litlen_code_bits
        length_code == PeakRange(m.self, lo, lo + length_extra_bits)
        dist_code == PeakRange(m.self, lo + length_extra_bits,
                               lo + length_extra_bits + 15)
        length == LEN_SYM_TO_LEN_BASE[litlen_symbol - 257 + 1] + length_code
        dist_symbol == dist_symbol_of(m.self.compression, dist_code)
        dist_code_bits == m.self.compression.dist_symbol_lengths[dist_symbol]
        dist_extra_bits == DIST_SYM_TO_DIST_EXTRA[dist_symbol + 1]
        dist == DIST_SYM_TO_DIST_BASE[dist_symbol + 1]
                  + PeakRange(m.self, lo + length_extra_bits + dist_code_bits,
                              lo + length_extra_bits + dist_code_bits + dist_extra_bits)
        oi == m.output_index
        copy_length == MinOf(length, Len(m.output) - oi)
        c == consume_bits(
                [copy_back(m, oi, dist, copy_length)
                    EXCEPT !.output_index = oi + copy_length],
                litlen_code_bits + length_extra_bits + dist_code_bits + dist_extra_bits)
    IN  IF lacks_bits(m.self, length_extra_bits + litlen_code_bits + 28)
        THEN [m |-> Stop(m, "input"), go |-> FALSE]
        ELSE IF dist_symbol = 999
        THEN [m |-> Fail(m, "InvalidDistanceCode"), go |-> FALSE]
        ELSE IF too_far_back(m, dist)
        THEN [m |-> Fail(m, "DistanceTooFarBack"), go |-> FALSE]
        ELSE IF copy_length < length
        THEN [m |-> Stop([c EXCEPT !.self.queued_backref =
                                        <<dist, length - copy_length>>], "output"),
              go |-> FALSE]
        ELSE [m |-> c, go |-> TRUE]

\* the slow path: a length symbol, the end of block, or a code of more
\* than 12 bits
slow_path(m, advance) ==
    LET advance_output_bytes == advance \div 16
        secondary == secondary_table(
                        m.self.compression.litlen,
                        ((advance % 32768) \div 16) + PeakRange(m.self, 12, 15))
        litlen_code_bits ==
            IF advance < 32768 THEN advance_output_bytes % 16 ELSE secondary % 16
        litlen_symbol ==
            IF advance < 32768 THEN 256 + (advance_output_bytes \div 16)
            ELSE secondary \div 16
    IN  IF advance = 65520
        THEN [m |-> Fail(m, "InvalidLiteralLengthCode"), go |-> FALSE]
        ELSE IF advance >= 32768 /\ secondary < 0
        THEN [m |-> Fail(m, "Panic"), go |-> FALSE]
        ELSE IF litlen_symbol < 256
        THEN IF m.output_index >= Len(m.output)
             THEN [m |-> Stop(m, "output"), go |-> FALSE]
             ELSE [m |-> consume_bits(
                            [WriteOut(m, m.output_index, litlen_symbol)
                                EXCEPT !.output_index = @ + 1],
                            litlen_code_bits),
                   go |-> TRUE]
        ELSE IF litlen_symbol = 256
        THEN [m |-> Stop([consume_bits(m, litlen_code_bits) EXCEPT
                            !.self.state = after_block(m.self)], "block"),
              go |-> FALSE]
        ELSE IF litlen_symbol > 285
        THEN [m |-> Fail(m, "InvalidLiteralLengthCode"), go |-> FALSE]
        ELSE back_reference(m, litlen_code_bits, litlen_symbol)

RECURSIVE read_compressed(_)
\* the end of one turn of `while let State::CompressedData = self.state`
next_symbol(r) == IF r.go THEN read_compressed(r.m) ELSE r.m

\* one turn of the loop on the entry advance_table[table_index]
decode_symbol(m, advance, table_index) ==
    next_symbol(
        IF advance % 16 > 0
        THEN fast_path(m, advance,
                       data_table0(m.self.compression.litlen, table_index),
                       data_table1(m.self.compression.litlen, table_index))
        ELSE slow_path(m, advance))

\* the decoding loop from a filled buffer
decode_loop(m, table_index) ==
    IF m.self.nbits < 15 THEN Stop(m, "input")
    ELSE decode_symbol(m, advance_table(m.self.compression.litlen, table_index),
                       table_index)

read_compressed(m0) ==
    IF m0.err # "" \/ m0.self.state # "CompressedData" THEN m0
    ELSE LET m == fill_buffer(m0)
         IN  decode_loop(m, ToNat(peak_bits(m.self, 12)))

-----------------------------------------------------------------------------
(* read *)

Ok(consumed, produced) ==
    [ok |-> TRUE, consumed |-> consumed, produced |-> produced, err |-> ""]
Err(e) == [ok |-> FALSE, consumed |-> 0, produced |-> 0, err |-> e]

\* the bytes of peak_bits(32), in stream order
TrailerBytes(self) == [k \in 1..4 |-> PeakRange(self, 8 * (k - 1), 8 * k)]

RECURSIVE fill_byte(_, _, _, _)
\* output[at..][..n].fill(data)
fill_byte(m, at, n, data) ==
    IF n = 0 \/ m.err # "" THEN m
    ELSE fill_byte(WriteOut(m, at, data), at + 1, n - 1, data)

\* the queued run, read without take()
drain_queued_rle_kept(m) ==
    LET data == m.self.queued_rle[1]
        len == m.self.queued_rle[2]
        n == MinOf(len, Len(m.output) - m.output_index)
        f == [(IF data # 0 THEN fill_byte(m, m.output_index, n, data) ELSE m)
                EXCEPT !.output_index = @ + n]
    IN  IF m.self.queued_rle = None THEN [m |-> m, ret |-> FALSE]
        ELSE IF n < len
        THEN [m |-> Stop([f EXCEPT !.self.queued_rle = <<data, len - n>>], "queue"),
              ret |-> TRUE]
        ELSE [m |-> f, ret |-> FALSE]

\* the queued run, if any.  ret = TRUE: read returns Ok((0, n)) at once
drain_queued_rle(m) ==
    LET data == m.self.queued_rle[1]
        len == m.self.queued_rle[2]
        n == MinOf(len, Len(m.output) - m.output_index)
        f == [(IF data # 0 THEN fill_byte(m, m.output_index, n, data) ELSE m)
                EXCEPT !.output_index = @ + n, !.self.queued_rle = None]
    IN  IF m.self.queued_rle = None THEN [m |-> m, ret |-> FALSE]
        ELSE IF n < len
        THEN [m |-> Stop([f EXCEPT !.self.queued_rle = <<data, len - n>>], "queue"),
              ret |-> TRUE]
        ELSE [m |-> f, ret |-> FALSE]

\* the queued back-reference, if any
drain_queued_backref(m) ==
    LET dist == m.self.queued_backref[1]
        len == m.self.queued_backref[2]
        n == MinOf(len, Len(m.output) - m.output_index)
        f == [copy_back(m, m.output_index, dist, n) EXCEPT !.output_index = @ + n]
    IN  IF m.self.queued_backref = None THEN [m |-> m, ret |-> FALSE]
        ELSE IF n < len
        THEN [m |-> Stop([f EXCEPT !.self.queued_backref = <<dist, len - n>>],
                         "queue"),
              ret |-> TRUE]
        ELSE [m |-> f, ret |-> FALSE]

\* the zlib header without the test of FDICT
zlib_header_any_fdict(m, input_) ==
    IF \/ input_[1] % 16 # 8
       \/ input_[1] \div 16 > 7
       \/ (input_[1] * 256 + input_[2]) % 31 # 0
    THEN Fail(m, "BadZlibHeader")
    ELSE [m EXCEPT !.remaining_input = SubSeq(@, 3, Len(@)),
                   !.self.state = "BlockHeader"]

\* State::ZlibHeader, with at least 2 bytes of input
zlib_header(m, input_) ==
    IF \/ input_[1] % 16 # 8
       \/ input_[1] \div 16 > 7
       \/ (input_[2] \div 32) % 2 # 0
       \/ (input_[1] * 256 + input_[2]) % 31 # 0
    THEN Fail(m, "BadZlibHeader")
    ELSE [m EXCEPT !.remaining_input = SubSeq(@, 3, Len(@)),
                   !.self.state = "BlockHeader"]

RECURSIVE drain_buffer(_)
\* State::UncompressedData, the bytes still in the bit buffer
drain_buffer(m) ==
    IF /\ m.err = ""
       /\ m.self.nbits > 0
       /\ m.self.uncompressed_bytes_left > 0
       /\ m.output_index < Len(m.output)
    THEN drain_buffer(
            [consume_bits(
                WriteOut(m, m.output_index, ToNat(peak_bits(m.self, 8))), 8)
             EXCEPT !.output_index = @ + 1,
                    !.self.uncompressed_bytes_left = @ - 1])
    ELSE m

uncompressed_data(m0) ==
    LET d == drain_buffer(m0)
        m == [d EXCEPT !.self.buffer = Zeros(64)]
        oi == m.output_index
        copy_bytes == MinOf(MinOf(m.self.uncompressed_bytes_left,
                                  Len(m.remaining_input)),
                            Len(m.output) - oi)
        left == m.self.uncompressed_bytes_left - copy_bytes
    IN  IF d.err # "" THEN d
        ELSE [m EXCEPT
                !.output = [k \in 1..Len(@) |->
                              IF k > oi /\ k <= oi + copy_bytes
                              THEN m.remaining_input[k - oi] ELSE @[k]],
                !.remaining_input = SubSeq(@, copy_bytes + 1, Len(@)),
                !.output_index = oi + copy_bytes,
                !.self.uncompressed_bytes_left = left,
                !.self.state =
                    IF left = 0
                    THEN after_block(m.self)
                    ELSE @,
                !.stop = IF left = 0 THEN "block"
                         ELSE IF oi + copy_bytes = Len(m.output) THEN "output"
                         ELSE "input"]

\* (self.peak_bits(32) as u32).swap_bytes() == self.checksum.finish()
checksum_matches(self) == TrailerBytes(self) = Adler32_finish(self.checksum)

\* the comparison of State::Checksum, a the machine at the trailer; seen
\* records what was compared
compare_checksum(a, align_bits, bits_read) ==
    IF ~checksum_matches(a.self)
    THEN Fail([a EXCEPT !.seen =
                <<[trailer |-> TrailerBytes(a.self),
                   digest |-> Adler32_finish(a.self.checksum),
                   align_bits |-> align_bits,
                   bits_read |-> bits_read]>>], "WrongChecksum")
    ELSE Stop(consume_bits(
                [a EXCEPT !.self.state = "Done",
                          !.seen =
                            <<[trailer |-> TrailerBytes(a.self),
                               digest |-> Adler32_finish(a.self.checksum),
                               align_bits |-> align_bits,
                               bits_read |-> bits_read]>>], 32), "done")

\* State::Checksum
checksum_step(m0, output_position) ==
    LET m == fill_buffer(m0)
        align_bits == (8 - (m.self.bits_read % 8)) % 8
        w == [m EXCEPT !.self.checksum =
                Adler32_write(@, SubSeq(m.output, output_position + 1,
                                        m.output_index))]
    IN  IF m.self.nbits >= 32 + align_bits
        THEN compare_checksum(
                IF align_bits # 0 THEN consume_bits(w, align_bits) ELSE w,
                align_bits, m.self.bits_read)
        ELSE Stop(m, "input")

\* match self.state { ... }
state_step(m, output_position) ==
    CASE m.self.state = "BlockHeader" -> Stop(read_block_header(m), "input")
      [] m.self.state = "CodeLengths" -> Stop(read_code_lengths(m), "input")
      [] m.self.state = "CompressedData" -> read_compressed(m)
      [] m.self.state = "UncompressedData" -> uncompressed_data(m)
      [] m.self.state = "Checksum" -> checksum_step(m, output_position)
      [] OTHER -> Fail(m, "Panic")

RECURSIVE state_machine(_, _)
\* while last_state != Some(self.state) { last_state = Some(self.state); ... }
last_state_loop(last_state, n, output_position) ==
    IF n.err # "" \/ n.self.state = "Done" \/ n.self.state = last_state
    THEN n
    ELSE state_machine(n, output_position)

state_machine(m, output_position) ==
    last_state_loop(m.self.state, state_step(m, output_position), output_position)

\* the output is full to the last byte
output_full_exact(m) == m.output_index >= Len(m.output)

\* `output_index >= output.len() - 1`: the output is full to within a byte
output_full(m) == m.output_index >= Len(m.output) - 1

\* an error leaves read through `?`
Raise(m) == [m EXCEPT !.ret = Err(m.err)]

\* the end of read without the test of end_of_input
finish_read_ok(m, input_, output_position, end_of_input) ==
    IF m.err # "" THEN Raise(m)
    ELSE [m EXCEPT
            !.self.checksum =
                IF m.self.state # "Done"
                THEN Adler32_write(@, SubSeq(m.output, output_position + 1,
                                             m.output_index))
                ELSE @,
            !.ret = Ok(Len(input_) - Len(m.remaining_input),
                       m.output_index - output_position)]

\* the end of read, after the state loop
finish_read(m, input_, output_position, end_of_input) ==
    LET w == IF m.self.state # "Done"
             THEN [m EXCEPT !.self.checksum =
                     Adler32_write(@, SubSeq(m.output, output_position + 1,
                                             m.output_index))]
             ELSE m
    IN  IF m.err # "" THEN Raise(m)
        ELSE IF \/ m.self.state = "Done"
                \/ ~end_of_input
                \/ output_full(m)
        THEN [w EXCEPT !.ret = Ok(Len(input_) - Len(m.remaining_input),
                                  m.output_index - output_position)]
        ELSE [w EXCEPT !.ret = Err("InsufficientInput")]

\* read from the state loop on, h the machine before it
read_states(h, input_, output_position, end_of_input) ==
    IF h.err # "" THEN Raise(h)
    ELSE finish_read(state_machine(h, output_position), input_, output_position,
                     end_of_input)

\* read without its early return
no_done_return(self) == FALSE

\* `if let State::Done = self.state { return Ok((0, 0)); }`
at_done(self) == self.state = "Done"

\* Decompressor::read; the result is the machine at the return, ret what
\* the call returned
read(self, input_, output_, output_position, end_of_input) ==
    LET m0 == [self |-> self, remaining_input |-> input_, output |-> output_,
               output_index |-> output_position, err |-> "", stop |-> "",
               seen |-> None, ret |-> Ok(0, 0)]
        q == drain_queued_rle(m0)
        b == drain_queued_backref(q.m)
    IN  IF at_done(self) THEN m0
        ELSE IF Len(output_) < output_position + 2
        THEN [m0 EXCEPT !.err = "Panic", !.ret = Err("Panic")]
        ELSE IF q.m.err # "" THEN Raise(q.m)
        ELSE IF q.ret
        THEN [q.m EXCEPT !.ret = Ok(0, q.m.output_index - output_position)]
        ELSE IF b.m.err # "" THEN Raise(b.m)
        ELSE IF b.ret
        THEN [b.m EXCEPT !.ret = Ok(0, b.m.output_index - q.m.output_index)]
        ELSE IF self.state = "ZlibHeader" /\ Len(input_) < 2
        THEN [b.m EXCEPT !.stop = "input",
                         !.ret = IF end_of_input THEN Err("InsufficientInput")
                                 ELSE Ok(0, 0)]
        ELSE read_states(
                IF self.state = "ZlibHeader" THEN zlib_header(b.m, input_) ELSE b.m,
                input_, output_position, end_of_input)

\* Decompressor::done
done(self) == self.state = "Done"

-----------------------------------------------------------------------------
(* The streams the caller feeds: zlib streams (RFC 1950) of DEFLATE blocks *)
(* (RFC 1951) written out from a description of their blocks, and streams  *)
(* derived from them by truncation or by changing bytes.                   *)
(*                                                                         *)
(* A block is a record with btype 0 (stored, with its bytes in data),      *)
(* btype 1 (fixed Huffman) or btype 2 (dynamic Huffman).  A compressed     *)
(* block carries tokens, <<b>> a literal byte and <<length, dist>> a       *)
(* back-reference; a dynamic block also carries hlit, hdist, the 19        *)
(* code-length code lengths clcl, and the code-length symbols cl_syms,     *)
(* <<symbol, extra>>, that spell its hlit + hdist code lengths.            *)

RECURSIVE Flatten(_)
Flatten(ss) == IF ss = <<>> THEN <<>> ELSE Head(ss) \o Flatten(Tail(ss))

\* the bytes a token sequence stands for, after the bytes in `before`
RECURSIVE Expand(_, _)
Expand(tokens, before) ==
    IF tokens = <<>> THEN before
    ELSE LET t == Head(tokens)
             n == Len(before)
             next == IF Len(t) = 1 THEN Append(before, t[1])
                     ELSE before \o [i \in 1..t[1] |->
                                        before[n - t[2] + ((i - 1) % t[2]) + 1]]
         IN  IF Len(next) >= 0 THEN Expand(Tail(tokens), next) ELSE <<>>

\* the code lengths a sequence of code-length symbols spells
RECURSIVE ExpandLengths(_, _)
ExpandLengths(cl_syms, before) ==
    IF cl_syms = <<>> THEN before
    ELSE LET c == Head(cl_syms)
             run == CASE c[1] = 16 -> [k \in 1..(3 + c[2]) |-> before[Len(before)]]
                      [] c[1] = 17 -> Zeros(3 + c[2])
                      [] c[1] = 18 -> Zeros(11 + c[2])
                      [] OTHER -> <<c[1]>>
         IN  ExpandLengths(Tail(cl_syms), before \o run)

\* the code lengths of a compressed block, laid out as the decoder keeps them
BlockLengths(b) ==
    IF b.btype = 1 THEN FIXED_CODE_LENGTHS
    ELSE LET l == ExpandLengths(b.cl_syms, <<>>)
         IN  [i \in 0..319 |->
                IF i < b.hlit THEN l[i + 1]
                ELSE IF i >= 288 /\ i < 288 + b.hdist THEN l[b.hlit + (i - 288) + 1]
                ELSE 0]

\* one token in the Huffman codes of lengths ll (literal/length) and dl
TokenBits(t, ll, lc, dl, dc) ==
    IF Len(t) = 1 THEN BitsOf(lc[t[1]], ll[t[1]])
    ELSE LET ls == Max({k \in 1..29 : LEN_SYM_TO_LEN_BASE[k] <= t[1]})
             ds == Max({k \in 1..30 : DIST_SYM_TO_DIST_BASE[k] <= t[2]})
         IN  BitsOf(lc[256 + ls], ll[256 + ls])
               \o BitsOf(t[1] - LEN_SYM_TO_LEN_BASE[ls], LEN_SYM_TO_LEN_EXTRA[ls])
               \o BitsOf(dc[ds - 1], dl[ds - 1])
               \o BitsOf(t[2] - DIST_SYM_TO_DIST_BASE[ds], DIST_SYM_TO_DIST_EXTRA[ds])

\* the tokens and the end-of-block symbol of a compressed block
DataBits(b) ==
    LET cl == BlockLengths(b)
        ll == [i \in 0..287 |-> cl[i]]
        dl == [i \in 0..31 |-> cl[288 + i]]
        lc == compute_codes(ll).codes
        dc == compute_codes(dl).codes
    IN  Flatten([k \in 1..Len(b.tokens) |-> TokenBits(b.tokens[k], ll, lc, dl, dc)])
          \o BitsOf(lc[256], ll[256])

\* HLIT, HDIST, HCLEN, the code-length code lengths and the code lengths
DynamicHeaderBits(b) ==
    LET cc == compute_codes(b.clcl).codes
        hclen == Max({k \in 4..19 : k = 4 \/ b.clcl[CLCL_ORDER[k]] # 0})
        extra_bits(sym) == IF sym = 16 THEN 2 ELSE IF sym = 17 THEN 3
                           ELSE IF sym = 18 THEN 7 ELSE 0
    IN  BitsOf(b.hlit - 257, 5) \o BitsOf(b.hdist - 1, 5) \o BitsOf(hclen - 4, 4)
          \o Flatten([k \in 1..hclen |-> BitsOf(b.clcl[CLCL_ORDER[k]], 3)])
          \o Flatten([k \in 1..Len(b.cl_syms) |->
                        BitsOf(cc[b.cl_syms[k][1]], b.clcl[b.cl_syms[k][1]])
                          \o BitsOf(b.cl_syms[k][2], extra_bits(b.cl_syms[k][1]))])

BytesToBits(bytes) == Flatten([k \in 1..Len(bytes) |-> BitsOf(bytes[k], 8)])

PadToByte(bits) == bits \o Zeros((8 - (Len(bits) % 8)) % 8)

BitsToBytes(bits) ==
    [k \in 1..(Len(bits) \div 8) |-> ToNat(SubSeq(bits, 8 * k - 7, 8 * k))]

\* the bits of the blocks, the first at the end of `before`
RECURSIVE BlocksBits(_, _, _)
BlocksBits(blocks, k, before) ==
    IF k > Len(blocks) THEN before
    ELSE LET b == blocks[k]
             head == before \o <<(IF k = Len(blocks) THEN 1 ELSE 0)>>
                       \o BitsOf(b.btype, 2)
         IN  BlocksBits(blocks, k + 1,
                CASE b.btype = 0 ->
                        PadToByte(head)
                          \o BitsOf(Len(b.data), 16) \o BitsOf(65535 - Len(b.data), 16)
                          \o BytesToBits(b.data)
                  [] b.btype = 1 -> head \o DataBits(b)
                  [] OTHER -> head \o DynamicHeaderBits(b) \o DataBits(b))

\* the bytes the blocks decompress to
RECURSIVE BlocksPlain(_, _, _)
BlocksPlain(blocks, k, before) ==
    IF k > Len(blocks) THEN before
    ELSE BlocksPlain(blocks, k + 1,
            IF blocks[k].btype = 0 THEN before \o blocks[k].data
            ELSE Expand(blocks[k].tokens, before))

\* the zlib stream of the blocks: header 78 01, the blocks, the Adler-32
ZlibStream(blocks) ==
    LET plain == BlocksPlain(blocks, 1, <<>>)
    IN  [bytes |-> <<120, 1>>
                     \o BitsToBytes(PadToByte(BlocksBits(blocks, 1, <<>>)))
                     \o Adler32_finish(Adler32_write(Adler32_new, plain)),
         plain |-> plain,
         valid |-> TRUE]

Stored(data) == [btype |-> 0, data |-> data]
Fixed(tokens) == [btype |-> 1, tokens |-> tokens]
Dynamic(hlit, hdist, clcl, cl_syms, tokens) ==
    [btype |-> 2, hlit |-> hlit, hdist |-> hdist, clcl |-> clcl,
     cl_syms |-> cl_syms, tokens |-> tokens]

-----------------------------------------------------------------------------
(* The streams of the model *)

Truncated(s, k) ==
    [bytes |-> SubSeq(s.bytes, 1, k), plain |-> s.plain, valid |-> FALSE]

WithByte(s, k, b) ==
    [bytes |-> [s.bytes EXCEPT ![k] = b], plain |-> s.plain, valid |-> FALSE]

\* code-length code: symbols 1, 2, 3 and 18, two bits each
ClclOf123And18 == [i \in 0..18 |-> IF i \in {1, 2, 3, 18} THEN 2 ELSE 0]

\* a dynamic block whose literal 0 has the code 0 (1 bit), 'A' 2 bits, the
\* end of block and the length 3 three bits, and one distance code (1)
ZeroRunBlock(tokens) ==
    Dynamic(258, 1, ClclOf123And18,
            << <<1, 0>>, <<18, 53>>, <<2, 0>>, <<18, 127>>, <<18, 41>>,
               <<3, 0>>, <<3, 0>>, <<1, 0>> >>,
            tokens)

StoredAB == ZlibStream(<< Stored(<<65, 66>>) >>)
FixedBackref == ZlibStream(<< Fixed(<< <<97>>, <<98>>, <<4, 2>>, <<99>> >>) >>)
EmptyThenStored == ZlibStream(<< Stored(<<>>), Stored(<<65>>) >>)
DynamicZeros ==
    ZlibStream(<< ZeroRunBlock(<< <<65>>, <<0>>, <<0>>, <<0>>, <<3, 1>>, <<65>> >>) >>)

\* four literals that the table decodes as two pairs
DynamicPairs ==
    ZlibStream(<< ZeroRunBlock(<< <<65>>, <<65>>, <<65>>, <<65>> >>) >>)

ValidStreams ==
    {StoredAB, FixedBackref, EmptyThenStored, DynamicZeros, DynamicPairs}

\* streams that end early, and streams with a changed trailer byte
CutStreams ==
    {Truncated(StoredAB, k) : k \in {1, 6, 8, 11}}
      \cup {Truncated(FixedBackref, k) : k \in {3, 9}}

BadStreams ==
    {WithByte(StoredAB, Len(StoredAB.bytes), 133),
     WithByte(ZlibStream(<< Stored(<<65>>) >>), 9, 255)}

Streams == ValidStreams \cup CutStreams \cup BadStreams

-----------------------------------------------------------------------------
(* Streams that meet the error paths of the headers *)

\* s with another zlib header
WithHeader(s, h, ok) ==
    [bytes |-> h \o SubSeq(s.bytes, 3, Len(s.bytes)), plain |-> s.plain,
     valid |-> ok]

\* s with the bits after its first `at` bits replaced
WithBits(s, at, bits) ==
    LET old == BytesToBits(s.bytes)
    IN  [bytes |-> BitsToBytes([k \in 1..Len(old) |->
                        IF k > at /\ k <= at + Len(bits) THEN bits[k - at]
                        ELSE old[k]]),
         plain |-> s.plain, valid |-> FALSE]

\* zlib headers: CM = 9; CINFO = 8; FDICT set; FCHECK wrong; and three
\* valid ones
HeaderStreams ==
    {WithHeader(StoredAB, h, FALSE) :
        h \in {<<121, 24>>, <<136, 28>>, <<120, 32>>, <<120, 2>>}}
      \cup {WithHeader(StoredAB, h, TRUE) : h \in {<<120, 156>>, <<8, 29>>}}
      \cup {Truncated(StoredAB, 1), Truncated(StoredAB, 2)}

\* a stored block after a fixed block: its header does not start a byte
FixedThenStored == ZlibStream(<< Fixed(<< <<97>> >>), Stored(<<65>>) >>)

\* stored blocks whose NLEN is not the complement of LEN, and two whose is
StoredHeaderStreams ==
    {WithByte(StoredAB, 6, 252), WithByte(StoredAB, 7, 0),
     WithByte(FixedThenStored, 8, 0), FixedThenStored,
     ZlibStream(<< Stored(<<>>) >>)}

\* dynamic headers with HLIT and HDIST fields out of range (the fields are
\* bits 3..7 and 8..12 of the block, after the 16 bits of the zlib header)
DynamicHeaderStreams ==
    {WithBits(DynamicZeros, 19, BitsOf(30, 5)),
     WithBits(DynamicZeros, 19, BitsOf(31, 5) \o BitsOf(31, 5)),
     WithBits(DynamicZeros, 24, BitsOf(30, 5)),
     WithBits(DynamicZeros, 24, BitsOf(31, 5)),
     WithBits(Truncated(DynamicZeros, 6), 19, BitsOf(30, 5))}

\* the deflate bits given after the zlib header 78 01, followed by eight
\* zero bytes so that no step lacks input
RawStream(bits) ==
    [bytes |-> <<120, 1>> \o BitsToBytes(PadToByte(bits)) \o Zeros(8),
     plain |-> <<>>, valid |-> FALSE]

\* a stream made to fail: the bits `before`, which decode, and then the
\* bits `bad`, at which read has to stop once it has `need` bits buffered,
\* lengths_before code lengths of the block read and out_before bytes written
Fault(before, bad, need, lengths_before, out_before) ==
    [stream |-> RawStream(before \o bad), bits_before |-> Len(before),
     need |-> need, lengths_before |-> lengths_before,
     out_before |-> out_before]

\* code-length code: symbols 1, 16, 17 and 18, two bits each
ClclOfRepeats == [i \in 0..18 |-> IF i \in {1, 16, 17, 18} THEN 2 ELSE 0]

\* the header of a dynamic block of 257 + 1 code lengths, with the
\* code-length symbols cl_syms
RepeatHeader(final, cl_syms) ==
    <<final>> \o BitsOf(2, 2)
      \o DynamicHeaderBits(Dynamic(257, 1, ClclOfRepeats, cl_syms, <<>>))

\* after the blocks in `first`, a dynamic header whose repeat symbol `bad`
\* follows the symbols `good`
RepeatFault(first, good, bad) ==
    LET before == first \o RepeatHeader(1, good)
        all == first \o RepeatHeader(1, Append(good, bad))
    IN  Fault(before, SubSeq(all, Len(before) + 1, Len(all)),
              IF bad[1] = 18 THEN 9 ELSE 7,
              Len(ExpandLengths(good, <<>>)), 0)

\* a dynamic block that is not the last of its stream
FirstOfTwo ==
    <<0>> \o BitsOf(2, 2) \o DynamicHeaderBits(ZeroRunBlock(<< <<65>> >>))
      \o DataBits(ZeroRunBlock(<< <<65>> >>))

\* symbol 16 first in the first block and in a second block, and runs of
\* 18, 17 and 16 that pass the 258 lengths of the block
FirstBlockRepeatFaults ==
    {RepeatFault(<<>>, <<>>, <<16, 0>>),
     RepeatFault(<<>>, << <<18, 127>> >>, <<18, 127>>),
     RepeatFault(<<>>, << <<18, 127>>, <<18, 106>>, <<1, 0>> >>, <<17, 0>>),
     RepeatFault(<<>>, << <<18, 127>>, <<18, 106>>, <<1, 0>> >>, <<16, 0>>)}

RepeatFaults ==
    FirstBlockRepeatFaults \cup {RepeatFault(FirstOfTwo, <<>>, <<16, 0>>)}

\* the header of a last fixed block
FixedHeader == <<1>> \o BitsOf(1, 2)

\* tokens in the fixed codes
FixedTokens(tokens) ==
    LET dl == [i \in 0..31 |-> FIXED_CODE_LENGTHS[288 + i]]
    IN  Flatten([k \in 1..Len(tokens) |->
                    TokenBits(tokens[k], FIXED_LITLEN, FIXED_LITLEN_CODES.codes,
                              dl, compute_codes(dl).codes)])

\* a fixed block of literals and then a back-reference of length 3 (a code
\* of 7 bits and no extra bits, so 35 bits are needed) to before the output
DistanceFault(literals, ref) ==
    Fault(FixedHeader \o FixedTokens(literals), FixedTokens(<<ref>>), 35, 0,
          Len(literals))

DistanceFaults ==
    {DistanceFault(<<>>, <<3, 1>>),
     DistanceFault(<< <<97>> >>, <<3, 2>>),
     DistanceFault(<< <<97>>, <<98>> >>, <<3, 3>>)}

\* a back-reference to the very first byte of the output
FixedRun == ZlibStream(<< Fixed(<< <<97>>, <<3, 1>> >>) >>)

\* a fixed block of one literal and the length 3, followed by the 5 bits of
\* the fixed distance code `symbol`
FixedDistance(symbol) ==
    LET dl == [i \in 0..31 |-> FIXED_CODE_LENGTHS[288 + i]]
    IN  Fault(FixedHeader \o FixedTokens(<< <<97>> >>),
              BitsOf(FIXED_LITLEN_CODES.codes[257], FIXED_LITLEN[257])
                \o BitsOf(compute_codes(dl).codes[symbol], 5),
              35, 0, 1)

\* ZeroRunBlock with 11 distance code lengths, all of them zero
NoDistanceBlock ==
    Dynamic(258, 11, ClclOf123And18,
            << <<1, 0>>, <<18, 53>>, <<2, 0>>, <<18, 127>>, <<18, 41>>,
               <<3, 0>>, <<3, 0>>, <<18, 0>> >>,
            <<>>)

\* the dynamic block b with the literal 'A' and the length 3 (a code of 3
\* bits, so 31 bits are needed), followed by the bits `dist`
DynamicDistance(b, dist) ==
    LET ll == [i \in 0..287 |-> BlockLengths(b)[i]]
        lc == compute_codes(ll).codes
    IN  Fault(<<1>> \o BitsOf(2, 2) \o DynamicHeaderBits(b)
                \o BitsOf(lc[65], ll[65]),
              BitsOf(lc[257], ll[257]) \o dist, 31, 258, 1)

\* distance codes that are no symbol: 30 and 31 of the fixed code, any
\* code of a block without distance codes, and the code 1 of a block whose
\* only distance code is 0
DistanceCodeFaults ==
    {FixedDistance(30), FixedDistance(31),
     DynamicDistance(NoDistanceBlock, <<0>>),
     DynamicDistance(NoDistanceBlock, <<1>>),
     DynamicDistance(ZeroRunBlock(<<>>), <<1>>)}

CraftedStreams ==
    HeaderStreams \cup StoredHeaderStreams \cup DynamicHeaderStreams
      \cup {f.stream : f \in RepeatFaults}
      \cup {f.stream : f \in DistanceFaults} \cup {FixedRun}
      \cup {f.stream : f \in DistanceCodeFaults}

-----------------------------------------------------------------------------
(* Streams of several blocks, and blocks that meet every kind of table     *)
(* entry                                                                   *)

\* a dynamic block of 257 literal/length code lengths: literal 0 has the
\* code 0 (1 bit), 'A' and the end of block 2 bits, and one distance code
LiteralBlock(tokens) ==
    Dynamic(257, 1, ClclOf123And18,
            << <<1, 0>>, <<18, 53>>, <<2, 0>>, <<18, 127>>, <<18, 41>>,
               <<2, 0>>, <<1, 0>> >>,
            tokens)

\* two dynamic blocks, the second with fewer code lengths than the first
TwoDynamicBlocks ==
    << ZeroRunBlock(<< <<65>> >>), LiteralBlock(<< <<0>>, <<65>> >>) >>

TwoDynamic == ZlibStream(TwoDynamicBlocks)

\* a back-reference and then a run of six zeros in one dynamic block
BackrefThenZeros ==
    ZlibStream(<< ZeroRunBlock(<< <<65>>, <<3, 1>>, <<0>>, <<0>>, <<0>>,
                                  <<0>>, <<0>>, <<0>>, <<65>> >>) >>)

\* a run of six zeros that one table entry emits
ZeroRun6 ==
    ZlibStream(<< ZeroRunBlock(<< <<65>>, <<0>>, <<0>>, <<0>>, <<0>>, <<0>>,
                                  <<0>>, <<65>> >>) >>)

\* stored, fixed, dynamic and stored again
Mixed ==
    ZlibStream(<< Stored(<<65>>), Fixed(<< <<97>> >>),
                  ZeroRunBlock(<< <<65>> >>), Stored(<<66>>) >>)

BlockStreams == {TwoDynamic, BackrefThenZeros, ZeroRun6, Mixed}

-----------------------------------------------------------------------------
(* The caller of read: input arrives in chunks, the caller passes what has *)
(* arrived and is not yet consumed, keeps the output produced so far in    *)
(* the buffer and adds zeroed room after it.                               *)

MaxChunk == 1       \* bytes that may arrive before a call, short of all
MaxRoom == 3        \* output room of a call, short of room for everything
MaxExtra == 2       \* the caller gives up this far past the expected length

NoCall ==
    [called |-> FALSE, state_before |-> "ZlibHeader", input_len |-> 0,
     output_len |-> 0, output_position |-> 0, end_of_input |-> FALSE,
     ret |-> Ok(0, 0), index_after |-> 0, stop |-> "", seen |-> None,
     unchanged |-> TRUE, all_eoi |-> TRUE]

\* what a call leaves in `result`
CallResult(r, input_, output_, output_position, end_of_input, all_eoi) ==
    [called |-> TRUE, state_before |-> decoder.state, input_len |-> Len(input_),
     output_len |-> Len(output_), output_position |-> output_position,
     end_of_input |-> end_of_input, ret |-> r.ret, index_after |-> r.output_index,
     stop |-> IF r.err # "" THEN "error" ELSE r.stop, seen |-> r.seen,
     unchanged |-> (r.self = decoder /\ r.output = output_),   \* nothing written
     all_eoi |-> all_eoi]

Init ==
    /\ \E s \in Streams :
        /\ input = s.bytes
        /\ expected = s.plain
        /\ valid = s.valid
    /\ decoder = Decompressor_new
    /\ avail = 0
    /\ input_index = 0
    /\ output = <<>>
    /\ output_index = 0
    /\ result = NoCall
    /\ pc = ""

\* a call of read by the streaming caller: n more bytes have arrived
Read(n, room, end_of_input) ==
    LET a == avail + n
        input_ == SubSeq(input, input_index + 1, a)
        output_ == SubSeq(output, 1, output_index) \o Zeros(room)
    IN  /\ pc = ""
        /\ ~done(decoder)
        /\ result.ret.ok
        /\ output_index <= Len(expected) + MaxExtra
        /\ a <= Len(input)
        /\ end_of_input => a = Len(input)
        /\ \E r \in {read(decoder, input_, output_, output_index, end_of_input)} :
            /\ decoder' = r.self
            /\ avail' = a
            /\ input_index' = input_index + r.ret.consumed
            /\ output' = r.output
            /\ output_index' = output_index + r.ret.produced
            /\ result' = CallResult(r, input_, output_, output_index, end_of_input,
                                     result.all_eoi /\ end_of_input)
        /\ UNCHANGED <<input, expected, valid, pc>>

\* a call of read once the decoder is done, with arguments of any kind
ReadDone(input_, output_, output_position, end_of_input) ==
    /\ pc = ""
    /\ done(decoder)
    /\ \E r \in {read(decoder, input_, output_, output_position, end_of_input)} :
        /\ decoder' = r.self
        /\ result' = CallResult(r, input_, output_, output_position, end_of_input,
                                 result.all_eoi)
    /\ UNCHANGED <<input, avail, input_index, output, output_index,
                   expected, valid, pc>>

Next ==
    \/ \E n \in (0..MaxChunk) \cup {Len(input) - avail},
          room \in (2..MaxRoom) \cup {Len(expected) + 2},
          end_of_input \in BOOLEAN :
            Read(n, room, end_of_input)
    \/ \E input_ \in {<<>>, <<120, 1>>, SubSeq(input, input_index + 1, Len(input))},
          output_ \in {<<>>, <<0>>, output \o Zeros(2)},
          output_position \in {0, output_index, output_index + 3},
          end_of_input \in BOOLEAN :
            ReadDone(input_, output_, output_position, end_of_input)

Spec == Init /\ [][Next]_vars

\* a caller that calls read once more after an error: the failed call
\* reported nothing consumed and nothing produced, so it is given the same
\* unconsumed input (and what has arrived since) and the same output
\* position.  The caller stops after that call (pc = "retried").
Retry(n, room, end_of_input) ==
    LET a == avail + n
        input_ == SubSeq(input, input_index + 1, a)
        output_ == SubSeq(output, 1, output_index) \o Zeros(room)
    IN  /\ pc = ""
        /\ result.called
        /\ ~result.ret.ok
        /\ a <= Len(input)
        /\ end_of_input => a = Len(input)
        /\ \E r \in {read(decoder, input_, output_, output_index, end_of_input)} :
            /\ decoder' = r.self
            /\ avail' = a
            /\ input_index' = input_index + r.ret.consumed
            /\ output' = r.output
            /\ output_index' = output_index + r.ret.produced
            /\ result' = CallResult(r, input_, output_, output_index, end_of_input,
                                     result.all_eoi /\ end_of_input)
        /\ pc' = "retried"
        /\ UNCHANGED <<input, expected, valid>>

NextRetry ==
    \/ Next
    \/ \E n \in (0..MaxChunk) \cup {Len(input) - avail},
          room \in (2..MaxRoom) \cup {Len(expected) + 2},
          end_of_input \in BOOLEAN :
            Retry(n, room, end_of_input)

SpecRetry == Init /\ [][NextRetry]_vars

\* the streaming caller on the crafted streams
InitCrafted ==
    /\ \E s \in CraftedStreams :
        /\ input = s.bytes
        /\ expected = s.plain
        /\ valid = s.valid
    /\ decoder = Decompressor_new
    /\ avail = 0
    /\ input_index = 0
    /\ output = <<>>
    /\ output_index = 0
    /\ result = NoCall
    /\ pc = ""

SpecCrafted == InitCrafted /\ [][Next]_vars

\* code-length code: symbols 1 and 2 of three bits, 3..13 and 18 of four
ClclOf1To13And18 ==
    [i \in 0..18 |-> IF i \in {1, 2} THEN 3
                     ELSE IF i \in 3..13 \/ i = 18 THEN 4 ELSE 0]

\* a dynamic block with codes of every length from 1 to 13 bits: literal 0
\* has the code 0 (1 bit), the literals 1..9 have 2..10 bits, the end of
\* block 11, the length 3 (symbol 257) 12, and the literal 10 and the
\* length 4 (symbol 258) 13 bits; one distance code
LongCodeBlock(tokens) ==
    Dynamic(259, 1, ClclOf1To13And18,
            << <<1, 0>>, <<2, 0>>, <<3, 0>>, <<4, 0>>, <<5, 0>>, <<6, 0>>,
               <<7, 0>>, <<8, 0>>, <<9, 0>>, <<10, 0>>, <<13, 0>>,
               <<18, 127>>, <<18, 96>>,
               <<11, 0>>, <<12, 0>>, <<13, 0>>, <<1, 0>> >>,
            tokens)

\* a literal of 10 bits and two zeros (one table entry), a literal of 13
\* bits, a pair of literals, the two lengths
LongCodes ==
    ZlibStream(<< LongCodeBlock(<< <<9>>, <<0>>, <<0>>, <<10>>, <<1>>, <<2>>,
                                   <<3, 1>>, <<4, 1>> >>) >>)

\* a dynamic block whose literal 0 has a code of 2 bits that is not the
\* code 0: 'A' has the code 0 (1 bit), the end of block 2 bits
ZeroNotFirstBlock(tokens) ==
    Dynamic(257, 1, ClclOf123And18,
            << <<2, 0>>, <<18, 53>>, <<1, 0>>, <<18, 127>>, <<18, 41>>,
               <<2, 0>>, <<1, 0>> >>,
            tokens)

ZeroNotFirst ==
    ZlibStream(<< ZeroNotFirstBlock(<< <<0>>, <<65>>, <<65>>, <<65>>, <<0>> >>) >>)

\* a fixed block after a dynamic block, and a dynamic block after a fixed
FixedAfterDynamic ==
    ZlibStream(<< Fixed(<< <<97>> >>), ZeroRunBlock(<< <<65>>, <<0>> >>),
                  Fixed(<< <<98>> >>) >>)

TableStreams == {LongCodes, ZeroNotFirst, FixedAfterDynamic}

\* the streaming caller on the streams of several blocks
InitBlocks ==
    /\ \E s \in BlockStreams :
        /\ input = s.bytes
        /\ expected = s.plain
        /\ valid = s.valid
    /\ decoder = Decompressor_new
    /\ avail = 0
    /\ input_index = 0
    /\ output = <<>>
    /\ output_index = 0
    /\ result = NoCall
    /\ pc = ""

SpecBlocks == InitBlocks /\ [][Next]_vars

\* s with bytes behind its trailer in the caller's input
Followed(s, extra) ==
    [bytes |-> s.bytes \o extra, plain |-> s.plain, valid |-> s.valid]

\* a stored block of two bytes after a fixed block; a fixed block whose
\* literal 'p' has the bits that begin a pair of the dynamic block before
\* it; and streams with other bytes behind the trailer
TailStreams ==
    {ZlibStream(<< Fixed(<< <<97>> >>), Stored(<<65, 66>>) >>),
     ZlibStream(<< ZeroRunBlock(<< <<65>> >>), Fixed(<< <<112>> >>) >>),
     Followed(StoredAB, <<1, 2, 3>>),
     Followed(FixedBackref, <<9>>)}

\* the streaming caller on the streams that meet every kind of table entry
InitTables ==
    /\ \E s \in TableStreams :
        /\ input = s.bytes
        /\ expected = s.plain
        /\ valid = s.valid
    /\ decoder = Decompressor_new
    /\ avail = 0
    /\ input_index = 0
    /\ output = <<>>
    /\ output_index = 0
    /\ result = NoCall
    /\ pc = ""

SpecTables == InitTables /\ [][Next]_vars

\* the streaming caller on the streams of TailStreams
InitTail ==
    /\ \E s \in TailStreams :
        /\ input = s.bytes
        /\ expected = s.plain
        /\ valid = s.valid
    /\ decoder = Decompressor_new
    /\ avail = 0
    /\ input_index = 0
    /\ output = <<>>
    /\ output_index = 0
    /\ result = NoCall
    /\ pc = ""

SpecTail == InitTail /\ [][Next]_vars

-----------------------------------------------------------------------------
(* decompress_to_vec *)

InitialLen == 1024      \* vec![0; 1024]
GrowBy == 32768         \* output.resize(output_index + 32 * 1024, 0)

\* a stream that decompresses to more than the first 1024 bytes
LongZeros ==
    ZlibStream(<< Fixed(<< <<0>>, <<258, 1>>, <<258, 1>>, <<258, 1>>, <<258, 1>> >>) >>)

Prefixes(s) == {Truncated(s, k) : k \in 0..(Len(s.bytes) - 1)}

VecStreams ==
    ValidStreams \cup {LongZeros} \cup BadStreams
      \cup UNION {Prefixes(s) : s \in ValidStreams}

InitVec ==
    /\ \E s \in VecStreams :
        /\ input = s.bytes
        /\ expected = s.plain
        /\ valid = s.valid
    /\ decoder = Decompressor_new
    /\ avail = Len(input)
    /\ input_index = 0
    /\ output = Zeros(InitialLen)
    /\ output_index = 0
    /\ result = NoCall
    /\ pc = "loop"

\* one turn of `while !decoder.done()`: the read (`?` returns its error)
\* and the resize
VecRead ==
    LET input_ == SubSeq(input, input_index + 1, Len(input))
    IN  /\ pc = "loop"
        /\ ~done(decoder)
        /\ \E r \in {read(decoder, input_, output, output_index, TRUE)} :
            /\ decoder' = r.self
            /\ result' = CallResult(r, input_, output, output_index, TRUE,
                                     result.all_eoi)
            /\ input_index' = input_index + r.ret.consumed
            /\ output_index' = output_index + r.ret.produced
            /\ IF r.ret.ok
               THEN /\ output' = Resize(r.output,
                                         output_index + r.ret.produced + GrowBy)
                    /\ pc' = "loop"
               ELSE /\ output' = r.output
                    /\ pc' = "failed"
        /\ UNCHANGED <<input, avail, expected, valid>>

\* the loop is left: output.resize(output_index, 0); Ok(output)
VecReturn ==
    /\ pc = "loop"
    /\ done(decoder)
    /\ output' = Resize(output, output_index)
    /\ pc' = "returned"
    /\ UNCHANGED <<decoder, input, avail, input_index, output_index, result,
                   expected, valid>>

NextVec == VecRead \/ VecReturn

SpecVec == InitVec /\ [][NextVec]_vars

-----------------------------------------------------------------------------
(* Properties *)

\* the bytes reported as produced so far
Produced == SubSeq(output, 1, output_index)

IsPrefix(a, b) == Len(a) <= Len(b) /\ SubSeq(b, 1, Len(a)) = a

\* the 4-byte trailer of the stream
StreamTrailer == SubSeq(input, Len(input) - 3, Len(input))

\* the bytes one read call produces from the whole stream with room for all
SingleCallOutput ==
    LET r == read(Decompressor_new, input, Zeros(Len(expected) + 2), 0, TRUE)
    IN  IF r.ret.ok THEN SubSeq(r.output, 1, r.ret.produced) ELSE <<>>

\* C1: on a valid stream the bytes produced by any sequence of read calls
\* (any input chunks, any output room of at least 2) are those a single
\* call on the whole stream produces: a prefix of them while decoding, all
\* of them at Done.
C1_ChunkingIndependent ==
    valid /\ result.called /\ result.ret.ok =>
        /\ IsPrefix(Produced, SingleCallOutput)
        /\ done(decoder) => Produced = SingleCallOutput

\* C2: decompress_to_vec on a valid zlib encoding of B returns Ok with
\* exactly the bytes of B.
C2_RoundTrip ==
    valid /\ pc \in {"returned", "failed"} =>
        pc = "returned" /\ output = expected

\* C3: no read call on a valid stream returns an error.
C3_NoErrorOnValid == valid /\ result.called => result.ret.ok

\* C4: from Done on, every read call, whatever its arguments, returns
\* Ok((0, 0)) and leaves the decoder (and the buffer it was given) as it
\* was, so done() stays true.
C4_DoneAbsorbs ==
    [][done(decoder) =>
        /\ decoder' = decoder
        /\ result'.ret = Ok(0, 0)
        /\ result'.unchanged]_vars

\* a call made at Done with an output buffer shorter than output_position + 2,
\* with input and end_of_input set
C4_Witness ==
    /\ result.called
    /\ result.state_before = "Done"
    /\ result.output_len < result.output_position + 2
    /\ result.input_len > 0
    /\ result.end_of_input

\* C5: at Done the 4-byte trailer of the stream is the Adler-32 of the
\* bytes reported as produced.
C5_TrailerIsAdler ==
    done(decoder) =>
        StreamTrailer = Adler32_finish(Adler32_write(Adler32_new, Produced))

\* C6: when the Checksum state compares, a stream trailer that differs from
\* the running Adler-32 makes read return WrongChecksum without entering
\* Done; an equal one makes the state Done, the padding and the 32 trailer
\* bits consumed.
C6_ChecksumStep ==
    result.called /\ result.seen # None =>
        LET s == result.seen[1]
        IN  IF StreamTrailer # s.digest
            THEN result.ret = Err("WrongChecksum") /\ ~done(decoder)
            ELSE /\ result.ret.ok
                 /\ done(decoder)
                 /\ decoder.bits_read = s.bits_read + s.align_bits + 32

\* C7 as stated: a call with end_of_input that stops for lack of input
\* returns Err(InsufficientInput).
C7_EndOfInput ==
    result.called /\ result.end_of_input /\ result.stop = "input" =>
        result.ret = Err("InsufficientInput")

\* C7 amended: a call with end_of_input that stops for lack of input
\* returns Err(InsufficientInput) if it leaves output_index below
\* output.len() - 1, and Ok otherwise.
C7_EndOfInputUnlessFull ==
    result.called /\ result.end_of_input /\ result.stop = "input" =>
        IF result.index_after < result.output_len - 1
        THEN result.ret = Err("InsufficientInput")
        ELSE result.ret.ok

\* a call past the header, with end_of_input, that ran out of input with
\* room left and returned InsufficientInput
C7_Witness ==
    /\ result.called
    /\ result.end_of_input
    /\ result.stop = "input"
    /\ result.state_before # "ZlibHeader"
    /\ result.index_after > result.output_position
    /\ result.ret = Err("InsufficientInput")

\* C8: a call with end_of_input that stops because the output buffer ran
\* out returns Ok: it leaves output_index >= output.len() - 1, or it is the
\* early return of a queued run or back-reference.
C8_OutputFullIsOk ==
    result.called /\ result.end_of_input /\ result.stop \in {"output", "queue"} =>
        /\ result.ret.ok
        /\ result.stop = "output" => result.index_after >= result.output_len - 1

\* on a valid stream with all its input, an entry of two or more bytes met
\* with one byte of room left: the call stops at output.len() - 1
C8_Witness ==
    /\ valid
    /\ result.called
    /\ result.end_of_input
    /\ result.stop = "output"
    /\ result.index_after = result.output_len - 1
    /\ result.ret.ok

\* C9 as stated: every Ok((consumed, produced)) returned by read has
\* consumed <= input.len() and output_position + produced <= output.len(),
\* and no call indexes output out of range.
C9_EveryOkInBounds ==
    result.called =>
        /\ result.state_before # "Done" /\ result.output_len >= result.output_position + 2
               => result.ret.err # "Panic"
        /\ result.ret.ok =>
            /\ result.ret.consumed <= result.input_len
            /\ result.output_position + result.ret.produced <= result.output_len

\* C9 amended: a call given output.len() >= output_position + 2 never
\* indexes output (or any table) out of range, and its
\* Ok((consumed, produced)) has consumed <= input.len() and
\* output_position + produced <= output.len().
C9_InBounds ==
    result.called /\ result.output_len >= result.output_position + 2 =>
        /\ result.ret.err # "Panic"
        /\ result.ret.ok =>
            /\ result.ret.consumed <= result.input_len
            /\ result.output_position + result.ret.produced <= result.output_len

\* a call whose last table entry emitted more bytes than the room left:
\* the output is filled exactly and the rest of the run is queued
C9_Witness ==
    /\ result.called
    /\ result.ret.ok
    /\ result.stop = "output"
    /\ decoder.queued_rle # None
    /\ result.output_position + result.ret.produced = result.output_len

\* C10: on a valid stream, with every call given all the input not yet
\* consumed and end_of_input, every call returns Ok and, short of Done,
\* consumes or produces at least one byte.
C10_DriverProgress ==
    valid /\ result.called /\ result.all_eoi =>
        /\ result.ret.ok
        /\ \/ done(decoder)
           \/ result.ret.consumed > 0
           \/ result.ret.produced > 0

\* the arguments of the read call a step of the streaming caller makes
CallInput == SubSeq(input, input_index + 1, avail')
CallOutput ==
    SubSeq(output, 1, output_index) \o Zeros(result'.output_len - output_index)

\* inp with every byte after the first c replaced
OtherTails(inp, c) ==
    {SubSeq(inp, 1, c) \o [k \in 1..(Len(inp) - c) |-> b] : b \in {0, 255}}
      \cup {[k \in 1..Len(inp) |-> IF k <= c THEN inp[k] ELSE 255 - inp[k]]}

\* C11: a call that returns Ok((consumed, produced)) returns the same, with
\* the same bytes in output[output_position..output_position + produced],
\* from the same decoder state and output buffer on any input that agrees
\* with its input on the first `consumed` bytes.
C11_ConsumedOnly ==
    [][~done(decoder) /\ result'.ret.ok =>
        \A alt \in OtherTails(CallInput, result'.ret.consumed) :
            LET r == read(decoder, alt, CallOutput, output_index,
                          result'.end_of_input)
            IN  /\ r.ret = result'.ret
                /\ SubSeq(r.output, output_index + 1,
                          output_index + result'.ret.produced)
                     = SubSeq(output', output_index + 1, output_index')]_vars

\* a call that produced output and left input bytes unconsumed
C11_Witness ==
    /\ result.called
    /\ result.ret.ok
    /\ result.ret.produced > 0
    /\ result.ret.consumed > 0
    /\ result.ret.consumed < result.input_len

\* C12: once read has returned an error, the next read call neither returns
\* Ok with produced > 0 nor brings the decoder to Done.
C12_ErrorsAreTerminal ==
    [][result.called /\ ~result.ret.ok =>
        /\ ~(result'.ret.ok /\ result'.ret.produced > 0)
        /\ ~done(decoder')]_vars

\* C13: in ZlibHeader with at least 2 input bytes read returns
\* BadZlibHeader exactly when CM # 8, CINFO > 7, FDICT is set or
\* CMF*256 + FLG is not a multiple of 31, the state staying ZlibHeader;
\* otherwise the 2 bytes are consumed and the state moves to BlockHeader
\* (and on from there if more input follows).  With fewer than 2 bytes and
\* end_of_input false it returns Ok((0, 0)) and changes nothing.
C13_ZlibHeader ==
    result.called /\ result.state_before = "ZlibHeader" =>
        IF result.input_len < 2
        THEN ~result.end_of_input => result.ret = Ok(0, 0) /\ result.unchanged
        ELSE LET cmf == input[1]
                 flg == input[2]
                 good == /\ cmf % 16 = 8
                         /\ cmf \div 16 <= 7
                         /\ (flg \div 32) % 2 = 0
                         /\ (cmf * 256 + flg) % 31 = 0
             IN  IF ~good
                 THEN result.ret = Err("BadZlibHeader") /\ result.unchanged
                 ELSE /\ result.ret.err # "BadZlibHeader"
                      /\ decoder.state # "ZlibHeader"
                      /\ result.ret.ok => result.ret.consumed >= 2
                      /\ result.input_len = 2 =>
                            /\ decoder.state = "BlockHeader"
                            /\ decoder.bits_read = 0
                            /\ decoder.nbits = 0
                            /\ ~result.end_of_input => result.ret = Ok(2, 0)

\* a header whose only fault is FDICT, refused
C13_Witness ==
    /\ result.called
    /\ result.input_len >= 2
    /\ input[1] = 120 /\ input[2] = 32
    /\ result.ret = Err("BadZlibHeader")

\* the machine at the block-header step of a call that starts in BlockHeader
\* (or in ZlibHeader, on a good header) with nothing queued: the input
\* after the zlib header, loaded by fill_buffer
HeaderStep ==
    fill_buffer([self |-> decoder,
                 remaining_input |->
                    IF decoder.state = "ZlibHeader"
                    THEN SubSeq(CallInput, 3, Len(CallInput)) ELSE CallInput])

AtHeader ==
    /\ decoder.state \in {"ZlibHeader", "BlockHeader"}
    /\ decoder.queued_rle = None /\ decoder.queued_backref = None
    /\ result'.called
    /\ decoder.state = "ZlibHeader" =>
            Len(CallInput) >= 2 /\ result'.ret.err # "BadZlibHeader"
    /\ HeaderStep.self.nbits >= 3

\* BTYPE of the header at the front of the bit buffer of f
BTypeOf(f) == PeakRange(f.self, 1, 3)

\* C14: a stored header (BTYPE = 00) with its 3 bits, the padding and the
\* 32 bits of LEN and NLEN buffered: if NLEN is not the complement of LEN
\* the call returns InvalidUncompressedBlockLength, no bit consumed and the
\* state BlockHeader; otherwise the header bits are consumed and, while the
\* state is UncompressedData, uncompressed_bytes_left is LEN less the bytes
\* of the block the call has emitted.
C14_StoredHeader ==
    [][AtHeader /\ BTypeOf(HeaderStep) = 0 =>
        LET f == HeaderStep
            align_bits == (8 - ((decoder.bits_read + 3) % 8)) % 8
            header_bits == 3 + align_bits + 32
            len == ToNat(SubSeq(f.self.buffer, 3 + align_bits + 1,
                                3 + align_bits + 16))
            nlen == ToNat(SubSeq(f.self.buffer, 3 + align_bits + 17,
                                 3 + align_bits + 32))
        IN  f.self.nbits >= header_bits =>
                IF \E k \in 1..16 :
                        BitAt(len, k - 1) = BitAt(nlen, k - 1)
                THEN /\ result'.ret = Err("InvalidUncompressedBlockLength")
                     /\ decoder'.state = "BlockHeader"
                     /\ decoder'.bits_read = decoder.bits_read
                ELSE /\ decoder'.bits_read >= decoder.bits_read + header_bits
                     /\ decoder'.state = "UncompressedData" =>
                            decoder'.uncompressed_bytes_left
                              = len - (result'.index_after - output_index)]_vars

\* a stored header that follows a fixed block, refused for its NLEN
C14_Witness ==
    /\ result.called
    /\ result.state_before = "BlockHeader"
    /\ decoder.bits_read > 0
    /\ result.ret = Err("InvalidUncompressedBlockLength")

\* C15: a dynamic header (BTYPE = 10) whose HLIT + 257 exceeds 286, or
\* else whose HDIST + 1 exceeds 30, is never consumed and the state stays
\* BlockHeader; the call that has the header and its code-length code
\* lengths at hand returns InvalidHlit in the first case and InvalidHdist
\* in the second, and a call that lacks them waits for input.
C15_DynamicHeader ==
    [][AtHeader /\ BTypeOf(HeaderStep) = 2 /\ HeaderStep.self.nbits >= 17 =>
        LET f == HeaderStep
            hlit == ToNat(SubSeq(f.self.buffer, 4, 8)) + 257
            hdist == ToNat(SubSeq(f.self.buffer, 9, 13)) + 1
            hclen == ToNat(SubSeq(f.self.buffer, 14, 17)) + 4
            at_hand == f.self.nbits + 8 * Len(f.remaining_input) >= 17 + 3 * hclen
            refused(e) ==
                /\ decoder'.state = "BlockHeader"
                /\ decoder'.bits_read = decoder.bits_read
                /\ IF at_hand THEN result'.ret = Err(e)
                   ELSE result'.stop = "input"
        IN  IF hlit > 286 THEN refused("InvalidHlit")
            ELSE IF hdist > 30 THEN refused("InvalidHdist")
            ELSE at_hand =>
                    /\ result'.ret.err \notin {"InvalidHlit", "InvalidHdist"}
                    /\ decoder'.bits_read >= decoder.bits_read + 17]_vars

\* a header with both counts out of range, refused for HLIT
C15_Witness ==
    /\ result.called
    /\ result.ret = Err("InvalidHlit")
    /\ decoder.state = "BlockHeader"
    /\ decoder.header.hdist > 30

\* the fault the stream was made with
FaultIn(faults) == CHOOSE f \in faults : f.stream.bytes = input

\* the bits of the fault are never consumed, and the call that has them
\* buffered and was not stopped before them by a full output stops on them
\* in state st with the error e
StopsAt(f, st, e) ==
    /\ decoder.bits_read <= f.bits_before
    /\ /\ result.called
       /\ result.stop # "output"
       /\ decoder.state = st
       /\ decoder.bits_read = f.bits_before
       /\ decoder.nbits >= f.need
       => result.ret = Err(e)

\* C16: in CodeLengths, in every dynamic block of a stream, symbol 16 as
\* the first code-length symbol of the block, and a repeat symbol whose run
\* passes hlit + hdist, fail with InvalidCodeLengthRepeat: the symbol is
\* not consumed and no length of the run is stored.  No other stream of the
\* model fails so.
C16_CodeLengthRepeat ==
    IF \E f \in RepeatFaults : f.stream.bytes = input
    THEN LET f == FaultIn(RepeatFaults)
         IN  /\ StopsAt(f, "CodeLengths", "InvalidCodeLengthRepeat")
             /\ decoder.header.num_lengths_read <= f.lengths_before
             /\ f \in FirstBlockRepeatFaults =>
                    \A i \in f.lengths_before..319 :
                        decoder.header.code_lengths[i] = 0
    ELSE result.ret.err # "InvalidCodeLengthRepeat"

RfcCodes(lengths) ==
    LET used == {j \in 0..31 : lengths[j] > 0}
        count == [len \in 1..15 |-> Cardinality({i \in used : lengths[i] = len})]
        first[len \in 1..15] ==
            IF len = 1 THEN 0 ELSE 2 * (first[len - 1] + count[len - 1])
    IN  [j \in used |->
            first[lengths[j]]
              + Cardinality({i \in used : i < j /\ lengths[i] = lengths[j]})]

\* the candidate starts with the code of `len` bits: the stream carries a
\* code from its most significant bit on
StartsWithCode(code, len, candidate) ==
    \A k \in 1..len : BitAt(candidate, k - 1) = BitAt(code, len - k)

\* distance codes as read_compressed may peek them
Candidates == 0..32 \cup {32767 - k : k \in 0..2}

\* C18: once the tables of a block are built, every candidate resolves to
\* the lowest symbol of 0..29 whose canonical code the candidate starts
\* with, a symbol of code length 0 matching nothing, and to no symbol (999)
\* if there is none; a back-reference with such a candidate (the fixed
\* codes 30 and 31, any code when all distance lengths are zero, the code
\* 1 when the only distance code is 0) makes read return
\* InvalidDistanceCode with none of its bits consumed, and no other stream
\* of the model does.
C18_DistanceResolution ==
    /\ decoder.state = "CompressedData" =>
            LET lengths == [j \in 0..31 |-> decoder.header.code_lengths[288 + j]]
                codes == RfcCodes(lengths)
            IN  \A candidate \in Candidates :
                    LET S == {j \in DOMAIN codes \cap 0..29 :
                                StartsWithCode(codes[j], lengths[j], candidate)}
                    IN  dist_symbol_of(decoder.compression, candidate)
                          = IF S = {} THEN 999 ELSE Min(S)
    /\ IF \E f \in DistanceCodeFaults : f.stream.bytes = input
       THEN LET f == FaultIn(DistanceCodeFaults)
            IN  /\ StopsAt(f, "CompressedData", "InvalidDistanceCode")
                /\ output_index <= f.out_before
       ELSE result.ret.err # "InvalidDistanceCode"

\* a back-reference refused in a block whose distance lengths are all zero
C18_Witness ==
    /\ result.called
    /\ result.ret = Err("InvalidDistanceCode")
    /\ decoder.header.hdist = 11
    /\ \A j \in 0..31 : decoder.header.code_lengths[288 + j] = 0

\* C19: a call that finds the rest of a back-reference queued copies it to
\* the start of its room; if the room is too small the call returns
\* Ok((0, room)) with the remainder queued; otherwise the whole rest is
\* emitted and queued_backref is None, unless the call has gone on to
\* consume a later back-reference that was cut short in turn.
C19_QueuedBackref ==
    [][/\ decoder.queued_backref # None
       /\ decoder.queued_rle = None
       /\ ~done(decoder)
       /\ result'.called
       => LET dist == decoder.queued_backref[1]
              len == decoder.queued_backref[2]
              at == result'.output_position
              room == result'.output_len - at
          IN  /\ \A i \in 1..MinOf(len, room) :
                      output'[at + i] = output'[at + i - dist]
              /\ IF room < len
                 THEN /\ decoder'.queued_backref = <<dist, len - room>>
                      /\ result'.ret = Ok(0, room)
                 ELSE decoder'.queued_backref # None =>
                          decoder'.bits_read > decoder.bits_read]_vars

\* the first block of the stream is stored (so are all blocks of such
\* streams of the model)
StoredOnly == Len(input) >= 3 /\ (input[3] \div 2) % 4 = 0

\* the bits in the bit buffer are the bits of the stream that precede the
\* first byte not yet consumed
BufferIsStream ==
    \A k \in 1..decoder.nbits :
        decoder.buffer[k] = BytesToBits(input)[8 * input_index - decoder.nbits + k]

\* C20: in a stream of stored blocks every successful call leaves the
\* output a prefix of the payloads, LEN bytes per block in order, and the
\* bit buffer holding the very bits of the stream that follow what has been
\* parsed, whatever LEN is and wherever the output filled; so the header
\* and the trailer that follow a block are read as the stream has them: no
\* call fails on a valid stream, and Done is reached only with all the
\* payloads emitted and the Adler-32 of the stream being theirs.
C20_StoredBlock ==
    StoredOnly /\ result.called =>
        /\ result.ret.ok => IsPrefix(Produced, expected) /\ BufferIsStream
        /\ valid => result.ret.ok
        /\ done(decoder) => valid /\ Produced = expected

\* the bits of the first k blocks of a stream that has n blocks
BitsThrough(blocks, k) ==
    LET all == BlocksBits(blocks, 1, <<>>)
        rest == BlocksBits(SubSeq(blocks, k + 1, Len(blocks)), 1, <<>>)
    IN  Len(all) - Len(rest)

\* C21: in the second dynamic block of a stream, once its header is read,
\* the code lengths counted so far are code lengths of that block (no more
\* than its hlit + hdist, each as the block's own header bits spell it),
\* and the tables of the block are built only when all hlit + hdist are
\* read, from exactly these lengths and with the header consumed.
C21_OwnCodeLengths ==
    input = TwoDynamic.bytes /\ result.called
      /\ decoder.bits_read > BitsThrough(TwoDynamicBlocks, 1) =>
        LET b == TwoDynamicBlocks[2]
            own == ExpandLengths(b.cl_syms, <<>>)
            n == decoder.header.num_lengths_read
        IN  /\ decoder.state = "CodeLengths" =>
                    /\ n <= b.hlit + b.hdist
                    /\ \A i \in 0..(n - 1) :
                            decoder.header.code_lengths[i] = own[i + 1]
            /\ decoder.state = "CompressedData" =>
                    /\ n = b.hlit + b.hdist
                    /\ decoder.header.code_lengths = BlockLengths(b)
                    /\ decoder.bits_read >=
                            BitsThrough(TwoDynamicBlocks, 1) + 3
                              + Len(DynamicHeaderBits(b))
            /\ decoder.state \in {"CodeLengths", "CompressedData", "Checksum", "Done"}

\* C22: at every Ok return the running checksum is the Adler-32 of the
\* bytes reported as produced by all the calls so far, the bytes emitted
\* from a queue at the start of a call included.
C22_ChecksumOfProduced ==
    result.called /\ result.ret.ok =>
        decoder.checksum = Adler32_write(Adler32_new, Produced)

\* C23: between read calls queued_rle and queued_backref are never both
\* set.
C23_OneQueue ==
    decoder.queued_rle = None \/ decoder.queued_backref = None

\* C24: in every state between calls num_lengths_read is at most
\* hlit + hdist of the header read last.
C24_LengthsReadBound ==
    decoder.header.num_lengths_read <= decoder.header.hlit + decoder.header.hdist

\* the zeros of the run not yet emitted
PendingZeros ==
    IF decoder.queued_rle = None THEN <<>> ELSE Zeros(decoder.queued_rle[2])

LoopStart ==
    LET m0 == [self |-> decoder, remaining_input |-> CallInput,
               output |-> CallOutput, output_index |-> output_index,
               err |-> "", stop |-> "", seen |-> None, ret |-> Ok(0, 0)]
        b == drain_queued_backref(drain_queued_rle(m0).m).m
    IN  IF decoder.state = "ZlibHeader" THEN zlib_header(b, CallInput) ELSE b

\* the edges of the state graph
Edges ==
    {<<"ZlibHeader", "BlockHeader">>, <<"BlockHeader", "UncompressedData">>,
     <<"BlockHeader", "CompressedData">>, <<"BlockHeader", "CodeLengths">>,
     <<"CodeLengths", "CompressedData">>, <<"CompressedData", "BlockHeader">>,
     <<"CompressedData", "Checksum">>, <<"UncompressedData", "BlockHeader">>,
     <<"UncompressedData", "Checksum">>, <<"Checksum", "Done">>}

\* one step from a to b stays or follows an edge, to Checksum after a last
\* block and back to BlockHeader after any other
EdgeOk(a, b) ==
    \/ a.state = b.state
    \/ /\ <<a.state, b.state>> \in Edges
       /\ b.state = "Checksum" => a.last_block
       /\ b.state = "BlockHeader" /\ a.state # "ZlibHeader" => ~a.last_block

RECURSIVE StepsOk(_, _, _)
\* every step of the state loop from m on is EdgeOk
StepsOk(m, last_state, output_position) ==
    IF m.err # "" \/ m.self.state = "Done" \/ m.self.state = last_state
    THEN TRUE
    ELSE LET n == state_step(m, output_position)
         IN  /\ EdgeOk(m.self, n.self)
             /\ StepsOk(n, m.self.state, output_position)

\* how far along the graph a state is
Rank(state) ==
    CASE state = "ZlibHeader" -> 0
      [] state = "Checksum" -> 2
      [] state = "Done" -> 3
      [] OTHER -> 1

\* C26: in every call the state moves only along the edges ZlibHeader ->
\* BlockHeader -> UncompressedData | CompressedData | CodeLengths,
\* CodeLengths -> CompressedData, CompressedData | UncompressedData ->
\* BlockHeader | Checksum, Checksum -> Done, step by step of the state
\* loop; Checksum follows a block with BFINAL = 1 only and BlockHeader a
\* block with BFINAL = 0 only; a call that returns before the loop leaves
\* the state alone, and no call takes the state back towards ZlibHeader,
\* out of Checksum other than to Done, or to Done from elsewhere than
\* Checksum.
C26_StateEdges ==
    [][~done(decoder) /\ result'.called =>
        /\ Rank(decoder'.state) >= Rank(decoder.state)
        /\ IF \/ result'.stop = "queue"
              \/ decoder.state = "ZlibHeader" /\ Len(CallInput) < 2
           THEN decoder'.state = decoder.state
           ELSE /\ EdgeOk(decoder, LoopStart.self)
                /\ StepsOk(LoopStart, "", output_index)]_vars

\* a call that went from the data of a block that is not the last through
\* the header of the next block into its data
C26_Witness ==
    /\ input = Mixed.bytes
    /\ result.called
    /\ result.state_before = "CompressedData"
    /\ decoder.state = "CompressedData"
    /\ decoder.header.hlit = 258

\* the call made in the step, had only the first k bytes of its input
\* arrived yet
FirstPart(k) ==
    read(decoder, SubSeq(CallInput, 1, k), CallOutput, output_index, FALSE)

\* the call that follows FirstPart(k) = r once the rest has arrived
SecondPart(r, k) ==
    read(r.self,
         SubSeq(CallInput, r.ret.consumed + 1, Len(CallInput)),
         r.output, r.output_index, result'.end_of_input)

\* the decoder as later steps see it: the bits of the buffer past nbits
\* are overwritten by the next fill with the same bits of the stream
Visible(self) ==
    [self EXCEPT !.buffer = [k \in 1..64 |-> IF k <= self.nbits THEN @[k] ELSE 0]]

\* the two calls return what the one call of the step returns, and leave
\* what it leaves unless it failed
SameAsOneCall(r, s) ==
    /\ s.ret.ok = result'.ret.ok
    /\ s.ret.err = result'.ret.err
    /\ s.ret.ok =>
            /\ Visible(s.self) = Visible(decoder')
            /\ s.output = output'
            /\ r.ret.consumed + s.ret.consumed = result'.ret.consumed
            /\ r.ret.produced + s.ret.produced = result'.ret.produced

\* a stored header that is not all buffered is left where it is
StoredHeaderWaits ==
    AtHeader /\ BTypeOf(HeaderStep) = 0
      /\ HeaderStep.self.nbits
            < 3 + ((8 - ((decoder.bits_read + 3) % 8)) % 8) + 32
      => /\ decoder'.state = "BlockHeader"
         /\ decoder'.bits_read = decoder.bits_read
         /\ result'.index_after = output_index
         /\ result'.stop = "input"

\* the parts of the input of a call that may arrive first, taken for a
\* first call that is given the whole stream and room for all its output
FirstParts ==
    IF /\ decoder.state = "ZlibHeader"
       /\ Len(CallInput) = Len(input)
       /\ Len(CallOutput) = Len(expected) + 2
    THEN 0..(Len(CallInput) - 1)
    ELSE {}

\* C27: a call that stops in BlockHeader, CodeLengths, CompressedData or
\* Checksum because the element at hand is not all buffered has consumed
\* no bit of it, written nothing for it and left the state where it was.
\* A stored header that is not all buffered is left unread in BlockHeader;
\* and in the streams of compressed blocks, a call on the part of the
\* input that arrives first does not fail where the call on all of it
\* succeeds, and when it waits for input, it and then a call on the rest
\* (there being room for a call) leave the decoder, the output and the
\* counts that the one call on all of it leaves.
C27_SuspensionIsAtomic ==
    [][/\ ~done(decoder)
       /\ decoder.queued_backref = None
       /\ result'.called
       => /\ StoredHeaderWaits
          /\ input # Mixed.bytes =>
               \A k \in FirstParts :
                 LET r == FirstPart(k)
                 IN  /\ result'.ret.ok => r.ret.ok
                     /\ /\ r.ret.ok
                        /\ r.stop = "input"
                        /\ Len(r.output) >= r.output_index + 2
                        /\ r.self.state \in
                             {"BlockHeader", "CodeLengths", "CompressedData", "Checksum"}
                        => SameAsOneCall(r, SecondPart(r, k))]_vars

\* a call that found the decoder waiting inside the code lengths of a
\* dynamic header and read the rest of them
C27_Witness ==
    /\ result.called
    /\ result.state_before = "CodeLengths"
    /\ result.ret.ok
    /\ result.input_len > 0
    /\ decoder.state = "CompressedData"

\* the back-references of a token sequence that follows `at` bytes of
\* output: where each starts, its length and its distance
RECURSIVE BackReferences(_, _)
BackReferences(tokens, at) ==
    IF tokens = <<>> THEN {}
    ELSE LET t == Head(tokens)
         IN  IF Len(t) = 1 THEN BackReferences(Tail(tokens), at + 1)
             ELSE {[p |-> at, L |-> t[1], D |-> t[2]]}
                    \cup BackReferences(Tail(tokens), at + t[1])

\* the back-references of the stream being read
CopiesOfInput ==
    IF /\ Len(input) \in 9..Len(FixedBackref.bytes)
       /\ input = SubSeq(FixedBackref.bytes, 1, Len(input))
    THEN BackReferences(<< <<97>>, <<98>>, <<4, 2>>, <<99>> >>, 0)
    ELSE IF input = DynamicZeros.bytes
    THEN BackReferences(<< <<65>>, <<0>>, <<0>>, <<0>>, <<3, 1>>, <<65>> >>, 0)
    ELSE {}

\* C28: the bytes of a back-reference of length L and distance D that
\* starts at p are out[p+i] = out[p+i-D] for i = 0..L-1, so that the D
\* bytes before p repeat with period D, in every state: after a call that
\* made the whole copy and after calls that made it in parts through
\* queued_backref; and a stream read to its end has all L of them.
C28_BackReference ==
    \A b \in CopiesOfInput :
        /\ \A i \in 0..(b.L - 1) :
                b.p + i < output_index
                => /\ output[b.p + i + 1] = output[b.p + i - b.D + 1]
                   /\ output[b.p + i + 1] = output[b.p - b.D + (i % b.D) + 1]
        /\ done(decoder) => output_index >= b.p + b.L

\* a call that found the rest of the copy of length 4 and distance 2
\* queued has completed it
C28_Witness ==
    /\ input = FixedBackref.bytes
    /\ result.called
    /\ result.state_before = "CompressedData"
    /\ result.output_position \in 3..5
    /\ output_index >= 6
    /\ SubSeq(output, 1, 6) = <<97, 98, 97, 98, 97, 98>>

RECURSIVE RfcFirst(_, _)
\* RFC 1951 (3.2.2), step 2: the smallest code of each code length
RfcFirst(bl_count, bits) ==
    IF bits = 1 THEN 0
    ELSE 2 * (RfcFirst(bl_count, bits - 1) + bl_count[bits - 1])

\* the canonical codes of RFC 1951 (3.2.2) for the literal/length symbols
\* that have a code length, each code a number read from its most
\* significant bit, indexed by <<length, code>>
RfcLitlenIndex(lengths) ==
    LET used == {i \in 0..287 : lengths[i] > 0}
        \* (f @@ <<>> is f, worked out once for all its arguments)
        bylen == [len \in 1..15 |-> {i \in used : lengths[i] = len}] @@ <<>>
        bl_count == [len \in 1..15 |-> Cardinality(bylen[len])] @@ <<>>
        next_code == [len \in 1..15 |-> RfcFirst(bl_count, len)] @@ <<>>
        code == [i \in used |->
                    next_code[lengths[i]]
                      + Cardinality({k \in bylen[lengths[i]] : k < i})] @@ <<>>
    IN  [k \in {<<lengths[i], code[i]>> : i \in used} |->
            CHOOSE i \in bylen[k[1]] : code[i] = k[2]]

\* the canonical codes of the fixed code lengths, worked out once
RfcFixedIndex == RfcLitlenIndex(FIXED_LITLEN)

\* the number that `len` bits of the stream after the first `from` spell
\* when the first of them is the most significant
CodeAt(bits, from, len) ==
    ToNat([k \in 1..len |-> bits[from + len - k + 1]])

\* one canonical code decoded from the bits after the first `from`:
\* <<symbol, length>>, None if no code is there
OneCode(index, bits, from) ==
    LET L == {len \in 1..15 :
                /\ from + len <= Len(bits)
                /\ <<len, CodeAt(bits, from, len)>> \in DOMAIN index}
    IN  IF L = {} THEN None
        ELSE LET len == CHOOSE l \in L : \A o \in L : l <= o
             IN  <<index[<<len, CodeAt(bits, from, len)>>], len>>

RECURSIVE Codes(_, _, _, _)
\* n canonical codes decoded one at a time: the symbols and the bits they
\* took (None if there are not n codes)
Codes(index, bits, from, n) ==
    IF n = 0 THEN [symbols |-> <<>>, bits |-> from]
    ELSE LET c == OneCode(index, bits, from)
         IN  IF c = None THEN None
             ELSE LET rest == Codes(index, bits, from + c[2], n - 1)
                  IN  IF rest = None THEN None
                      ELSE [symbols |-> <<c[1]>> \o rest.symbols,
                            bits |-> rest.bits]

\* what the tables decode from 15 bits of the stream in one turn of the
\* loop of read_compressed: the symbols and the number of bits they took
TableDecode(litlen, bits) ==
    LET j == ToNat(SubSeq(bits, 1, 12))
        advance == advance_table(litlen, j)
        n == advance \div 16
        secondary == secondary_table(litlen, ((advance % 32768) \div 16)
                                               + ToNat(SubSeq(bits, 13, 15)))
    IN  IF advance % 16 > 0
        THEN [symbols |-> IF n = 1 THEN <<data_table0(litlen, j)>>
                          ELSE <<data_table0(litlen, j), data_table1(litlen, j)>>
                                 \o Zeros(n - 2),
              bits |-> advance % 16]
        ELSE IF advance = 65520 THEN None
        ELSE IF advance < 32768
        THEN [symbols |-> <<256 + (advance \div 256)>>,
              bits |-> (advance \div 16) % 16]
        ELSE [symbols |-> <<secondary \div 16>>, bits |-> secondary % 16]

\* bits that the loop may find buffered: chosen low bits, then zeros or ones
TableCandidates ==
    {BitsOf(c, 15) : c \in 0..40}
      \cup {BitsOf(32767 - c, 15) : c \in 0..40}
      \cup {BitsOf(c * 1024 + 1023, 15) : c \in 0..31}
      \cup {BitsOf(c * 1024 + 511, 15) : c \in 0..31}

\* the next 15 bits of the bit buffer, if it holds as many
Buffered == IF decoder.nbits >= 15 THEN {peak_bits(decoder, 15)} ELSE {}

\* a call that had room for two bytes and produced nothing has left the
\* decoder in a compressed block, waiting for input
TablesBuilt ==
    /\ result.called
    /\ result.ret.ok
    /\ result.stop = "input"
    /\ result.ret.produced = 0
    /\ result.output_len = result.output_position + 2
    /\ decoder.state = "CompressedData"

\* C29: while a compressed block is decoded, what the tables decode from
\* the 15 bits that are buffered, and once the tables are built from any
\* 15 bits (a literal, a pair, a literal or pair and a run of zeros, a
\* length symbol or the end of block, a code of more than 12 bits), is
\* what decoding one canonical code of the code lengths at a time decodes
\* from them: the same symbols and the same number of bits; the bits that
\* start no code have no entry.
C29_TablesAreCanonical ==
    decoder.state = "CompressedData" =>
        LET lengths == [i \in 0..287 |-> decoder.header.code_lengths[i]]
            index == IF lengths = FIXED_LITLEN THEN RfcFixedIndex
                     ELSE RfcLitlenIndex(lengths)
        IN  \A bits \in IF TablesBuilt THEN TableCandidates \cup Buffered
                         ELSE Buffered :
                LET t == TableDecode(decoder.compression.litlen, bits)
                IN  IF t = None THEN OneCode(index, bits, 0) = None
                    ELSE t = Codes(index, bits, 0, Len(t.symbols))

\* the decoder waits in front of a code of 13 bits, after an entry of a
\* literal of 10 bits and two zeros
C29_Witness ==
    /\ decoder.state = "CompressedData"
    /\ input = LongCodes.bytes
    /\ decoder.nbits >= 15
    /\ advance_table(decoder.compression.litlen,
                     ToNat(peak_bits(decoder, 12))) >= 32768
    /\ output_index = 3
    /\ SubSeq(output, 1, 3) = <<9, 0, 0>>

\* no canonical code of the code lengths starts the 12 bits of j, and none
\* of more than 12 bits has them as its first 12
Unmatched(index, j) ==
    /\ OneCode(index, BitsOf(j, 12), 0) = None
    /\ \A next3 \in 0..7 : OneCode(index, BitsOf(j + 4096 * next3, 15), 0) = None

\* entry j of advance_table after the builds of litlen is an entry that
\* the last build wrote, of one of the three kinds
EntryOfBlock(litlen, j) ==
    LET t == litlen[Len(litlen)]
        advance == advance_table(litlen, j)
    IN  /\ AdvanceWrite(t, j) # -1
        /\ advance # 65535
        /\ \/ /\ advance < 32768               \* literals
              /\ advance % 16 \in 1..12
              /\ advance \div 16 >= 1
           \/ /\ advance < 32768               \* a length symbol
              /\ advance % 16 = 0
              /\ (advance \div 16) % 16 \in 1..12
              /\ 256 + (advance \div 256) < t.hlit
           \/ /\ advance >= 32768              \* codes of more than 12 bits
              /\ advance # 65520
              /\ \A next3 \in 0..7 :
                    LET e == secondary_table(litlen,
                                             ((advance % 32768) \div 16) + next3)
                    IN  e > 0 /\ e % 16 \in 13..15

\* C30: after a build of the tables, for the first block and for a later
\* one, each of the 4096 entries of advance_table is one that this build
\* wrote: literals with 1..12 input bits, a length symbol, or a pointer
\* to 8 filled entries of secondary_table; an index that no code of the
\* block matches holds 0xFFF0; no entry is 0xFFFF and none is left from
\* an earlier block.  The entry the decoder is about to use is such an
\* entry in every state of a compressed block.
C30_EveryEntryWritten ==
    decoder.state = "CompressedData" =>
        LET litlen == decoder.compression.litlen
            lengths == [i \in 0..287 |-> decoder.header.code_lengths[i]]
            index == IF lengths = FIXED_LITLEN THEN RfcFixedIndex
                     ELSE RfcLitlenIndex(lengths)
        IN  \A j \in IF TablesBuilt THEN 0..4095
                      ELSE {ToNat(peak_bits(decoder, 12))} :
                IF Unmatched(index, j)
                THEN advance_table(litlen, j) = 65520
                ELSE EntryOfBlock(litlen, j)

\* the tables of a fixed block built after those of a dynamic block that
\* followed a fixed block
C30_Witness ==
    /\ TablesBuilt
    /\ input = FixedAfterDynamic.bytes
    /\ Len(decoder.compression.litlen) = 3
    /\ decoder.header.hlit = 288

\* the bit of the stream that bit k of the bit buffer stands for: the
\* buffer holds from its first bit on the bits that precede the first
\* byte not yet consumed (-1: past the end of the input)
StreamBitAt(k) ==
    LET at == 8 * input_index - decoder.nbits + k
    IN  IF at >= 1 /\ at <= 8 * Len(input) THEN BytesToBits(input)[at] ELSE -1

\* C31 as stated: every bit of the bit buffer at a position >= nbits is
\* zero.
C31_HighBitsZero ==
    result.ret.ok => \A k \in (decoder.nbits + 1)..64 : decoder.buffer[k] = 0

\* C31: every bit of the bit buffer at a position >= nbits is zero or is
\* the bit of the input that stands at that position of the stream (a copy
\* that the 8-byte path of fill_buffer left of a byte it did not remove),
\* and nbits is at most 64, after every call that returns Ok.
C31_HighBitsZeroOrInput ==
    result.ret.ok =>
        /\ decoder.nbits <= 64
        /\ \A k \in (decoder.nbits + 1)..64 :
                decoder.buffer[k] = 0 \/ decoder.buffer[k] = StreamBitAt(k)

\* the 8-byte path has left bits of the next input byte above nbits
C31_Witness ==
    /\ result.called
    /\ result.ret.ok
    /\ result.input_len >= 10
    /\ \E k \in (decoder.nbits + 1)..64 :
            decoder.buffer[k] = 1 /\ StreamBitAt(k) = 1

\* the input slices that a call may pass to fill_buffer: what follows the
\* consumed bytes, up to any later byte of the stream
Slices == {SubSeq(input, input_index + 1, e) : e \in input_index..Len(input)}

\* C32: nbits is at most 64, and fill_buffer on the decoder as it stands
\* and any slice of the input adds to nbits 8 times the number of bytes
\* it removes from the slice, leaves at most 64, and with 8 bytes or more
\* in the slice and nbits < 64 removes (63 - nbits) / 8 bytes and leaves
\* 56 <= nbits <= 63.
C32_FillBuffer ==
    /\ decoder.nbits <= 64
    /\ \A inp \in Slices :
        LET f == fill_buffer([self |-> decoder, remaining_input |-> inp])
            removed == Len(inp) - Len(f.remaining_input)
        IN  /\ f.self.nbits = decoder.nbits + 8 * removed
            /\ f.self.nbits <= 64
            /\ f.remaining_input = SubSeq(inp, removed + 1, Len(inp))
            /\ Len(inp) >= 8 /\ decoder.nbits < 64 =>
                    /\ removed = (63 - decoder.nbits) \div 8
                    /\ f.self.nbits \in 56..63

\* a call has left a number of bits that is no multiple of 8, more than
\* 56 of them, and 8 bytes or more of the stream to come
C32_Witness ==
    /\ result.called
    /\ result.ret.ok
    /\ decoder.nbits % 8 # 0
    /\ decoder.nbits > 56
    /\ Len(input) - input_index >= 8

\* C33: the bits consumed and the bits buffered make whole bytes together,
\* so bits_read mod 8 is the offset in its byte of the next unread bit of
\* the stream; stored data and the end of the trailer are reached on a
\* byte boundary, and nbits is a multiple of 8 whenever the state is
\* UncompressedData.
C33_ByteAligned ==
    /\ (decoder.bits_read + decoder.nbits) % 8 = 0
    /\ (8 * input_index + 64 - decoder.nbits) % 8 = decoder.bits_read % 8
    /\ decoder.state = "UncompressedData" =>
            decoder.nbits % 8 = 0 /\ decoder.bits_read % 8 = 0
    /\ decoder.state = "Done" => decoder.bits_read % 8 = 0

\* a call has stopped in stored data with whole bytes of it still buffered
C33_Witness ==
    /\ result.called
    /\ result.ret.ok
    /\ result.state_before # "UncompressedData"
    /\ decoder.state = "UncompressedData"
    /\ decoder.nbits >= 8
    /\ decoder.bits_read >= 16 + 40

\* C34: a call that returns Ok((_, produced)) on a buffer that was zero
\* from output_position on leaves every byte at an index >=
\* output_position + produced zero, and changes no byte at an index <
\* output_position.
C34_OutputOutsideRange ==
    [][result'.called /\ result'.ret.ok /\ ~done(decoder) =>
            /\ \A k \in 1..output_index : output'[k] = output[k]
            /\ \A k \in (output_index' + 1)..Len(output') : output'[k] = 0]_vars

\* the byte length of the zlib stream at the head of the caller's input
StreamLength ==
    IF input = Followed(StoredAB, <<1, 2, 3>>).bytes THEN Len(StoredAB.bytes)
    ELSE IF input = Followed(FixedBackref, <<9>>).bytes
    THEN Len(FixedBackref.bytes)
    ELSE Len(input)

\* C35: once the decoder is Done the values of input_consumed of all the
\* calls add up to the byte length of the zlib stream, and no call reports
\* a byte behind the trailer as consumed.
C35_ConsumedIsStreamLength ==
    /\ input_index <= StreamLength
    /\ done(decoder) => input_index = StreamLength

====
